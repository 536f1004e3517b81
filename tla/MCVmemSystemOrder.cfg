SPECIFICATION SysSpec
CONSTANTS
    c1 = c1
    c2 = c2
    f1 = f1
    f2 = f2
    f3 = f3
    p1 = p1
    p2 = p2
    Client = {c1}
    Fd = {f1, f2}
    Ptr = {p1}
    Size = {1}
    SizeOf <- MCSizeOf
    VramLimit = 2
    DramLimit = 1
    Limit <- MCLimit
    CtxOverhead = 1
    Nil = Nil
    AutoReconnect = FALSE
    Cap = 3
    Backlog = 2
    MaxCrash = 0
PROPERTIES
    OwnOrder
