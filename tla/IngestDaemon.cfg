SPECIFICATION FairSpec
CONSTANTS
    Ids = {1, 2, 3}
    Times = {1, 2, 3}
    Students = {s1}
    Kinds = {"ok", "malformed", "poison"}
    Untimed = {2}
    Daemon = daemon
    WarmUps = {}
    Requests = {}
    PageSize = 2
    Orders = {"newest_first", "oldest_first"}
    Overlap = 1
    Skew = 1
    InOrder = TRUE
    SeedAhead = 0
    MaxFaults = 2
INVARIANTS WalkHasNoGap
PROPERTIES ImplementsMirror EventuallyStored
CHECK_DEADLOCK FALSE
