SPECIFICATION Spec
CONSTANTS
    Sessions = {s1, s2}
    Ids = {1, 2, 3}
    Times = {1, 2}
    RunIds = {1, 2}
    NotableIds = {1, 2}
    Daemon = daemon
    Admins = {admin}
    RUN_STREAMS_MAX = 1
    MaxFaults = 1
INVARIANTS TypeOK RunsExact IndexStable NoneSkipped
