SPECIFICATION Spec
CONSTANTS
    Threads = {t1, t2}
    Keys = {k1}
    Models = {navigator}
    Navigator = navigator
    MaxTurns = 2
    SessionLimit = 1
    DailyLimit = 2
    MaxCost = 1
    MaxExchanges = 3
    MaxCheckIns = 1
    MaxFaults = 1
SYMMETRY Symmetry
INVARIANTS TypeOK OverspendBounded TokensAccounted PromptContext
CHECK_DEADLOCK FALSE
