SPECIFICATION Spec
CONSTANTS
    GoMars = gomars
    Elsewhere = {disk}
    NoData = nodata
    NoParameters = noparameters
    NoScore = noscore
    Minute = 1
    StalledAfter = 1
    StaticAfter = 1
    QuitWithin = 0
    SnapTestGap = 0
    Requests = {r1}
    Arrivals <- MCArrivals
    MaxTime = 1
    MaxEvents = 4
    MaxRaces = 1
    MaxFaults = 1
INVARIANTS TypeOK DeadClasses ClassesGrounded PolicyFollowsPrompt WhichStayIsShown
CHECK_DEADLOCK FALSE
