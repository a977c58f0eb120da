SPECIFICATION FairSpec
CONSTANTS
    Daemon = daemon
    Admins = {admin}
    InactiveAfter = 1
    ReAlertAfter = 2
    Recency = 5
    MaxTime = 6
    MaxFaults = 1
INVARIANTS TypeOK NumberedOneByOne Spaced
PROPERTIES ReAlerts RecoveryResolves
CHECK_DEADLOCK FALSE
