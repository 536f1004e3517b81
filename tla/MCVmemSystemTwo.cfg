SPECIFICATION SysSpec
CONSTANTS
    c1 = c1
    c2 = c2
    f1 = f1
    f2 = f2
    f3 = f3
    p1 = p1
    p2 = p2
    Client = {c1, c2}
    Fd = {f1, f2}
    Ptr = {p1, p2}
    Size = {1, 2}
    SizeOf <- MCSizeOf
    VramLimit = 3
    DramLimit = 2
    Limit <- MCLimit
    CtxOverhead = 1
    Nil = Nil
    AutoReconnect = TRUE
    Cap = 2
    Backlog = 2
    MaxCrash = 1
INVARIANTS
    SysTypeOK
    TableMatches
    ClientsBehave
    GrantsClosed
    AnswersMatch
    NoOrphans
VIEW View
SYMMETRY Symmetry
CONSTRAINT EitherTwo
