SPECIFICATION RawSpec
CONSTANTS
    f1 = f1
    f2 = f2
    p1 = p1
    p2 = p2
    Fd = {f1, f2}
    Ptr = {p1, p2}
    Size = {1, 2}
    VramLimit = 3
    DramLimit = 3
    Limit <- MCLimit
    CtxOverhead = 1
    Nil = Nil
INVARIANTS
    TenantAccounts
