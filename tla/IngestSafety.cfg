SPECIFICATION Spec
CONSTANTS
    Ids = {1, 2, 3}
    Times = {1, 2}
    Students = {s1, s2}
    Kinds = {"ok"}
    Untimed = {2}
    Daemon = daemon
    WarmUps = {warmup}
    Requests = {request}
    PageSize = 2
    Orders = {"newest_first"}
    Overlap = 0
    Skew = 0
    InOrder = TRUE
    SeedAhead = 0
    MaxFaults = 1
SYMMETRY Symmetry
INVARIANTS TypeOK NoRecordLost
PROPERTIES ImplementsMirror
CHECK_DEADLOCK FALSE
