SPECIFICATION Spec
CONSTANTS
    MaxRequests = 2
    Pieces = 2
    MaxAttempts = 2
    MaxStored = 3
INVARIANT DoneSeesLatest
CHECK_DEADLOCK FALSE
