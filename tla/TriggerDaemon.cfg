SPECIFICATION Spec
CONSTANTS
    Loops = {l1, l2}
    Admins = {a1}
    Spellings = {cobra, Cobra}
    Classes = {c1}
    Times = {1, 2}
    None = none
    MaxFaults = 1
    MaxStarts = 2
INVARIANTS TypeOK OneLoop SwitchesReal
PROPERTIES PointerForward LastSeenCatchesUp
