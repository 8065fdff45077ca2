SPECIFICATION Spec
CONSTANTS
    Tabs = {"t1", "t2"}
    OneTab = {"t1"}
    Logins = {"n1", "n2"}
    OneLogin = {"n1"}
    First = "n1"
    MaxTurns = 1
    MaxLoads = 1
    MaxInbox = 1
    Nobody = "nobody"
    MaxRequests = 2
    Pieces = 2
    MaxAttempts = 2
    MaxStored = 3
    Refreshes = {1, 2, 3}
    Presented = {"k1", "k2"}
    PoolSize = 2
    NoHolder = 0
INVARIANTS
    TypesOK
    RefusedMeansGone
    OneAttemptShown
PROPERTIES
    ClearedTabStaysOut
    Settles
CHECK_DEADLOCK FALSE
