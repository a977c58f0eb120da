SPECIFICATION FairSpec
CONSTANTS
    Sessions = {s1}
    Triggers = {spin, muted}
    ActedOn = {spin}
    Chats = {student, research}
    Daemon = daemon
    Admins = {admin}
    MaxTurns = 3
    MaxFaults = 1
INVARIANTS TypeOK OneMessagePerFire ActedHasMessage OnlyFailuresDrop MemoryFollowsMessages
PROPERTIES EveryFireAnswered ImplementsCheckIns
CHECK_DEADLOCK FALSE
