SPECIFICATION FairSpec
CONSTANTS
    s1 = s1
    s2 = s2
    c1 = c1
    Students = {s1, s2}
    Inserters = {daemon, admin}
    Streams = {c1}
    Owner <- MCOwner
    RevRow = TRUE
    MaxId = 3
    MaxFaults = 0
CHECK_DEADLOCK FALSE
PROPERTIES Arrives
