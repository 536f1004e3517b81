SPECIFICATION RunSpec
CONSTANTS
    Va <- MCVa
    Name = {x, y}
    Size = {0, 1, 2}
    MaxId = 2
    MaxHandle = 2
    MaxFault = 1
    Nil = Nil
INVARIANTS
    RunTypeOK
    Exact
    Placed
    CleanExit
PROPERTIES
    StaleStays
    ContentsKept
SYMMETRY Symmetry
CHECK_DEADLOCK FALSE
