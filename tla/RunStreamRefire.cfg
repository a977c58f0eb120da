SPECIFICATION Spec
CONSTANTS
    Sessions = {s1}
    Ids = {1, 2}
    Times = {1, 2}
    RunIds = {1, 2}
    NotableIds = {1}
    Daemon = daemon
    Admins = {}
    RUN_STREAMS_MAX = 1
    MaxFaults = 0
INVARIANTS NewBehaviorOnly
