SPECIFICATION FairSpec
CONSTANTS
    t1 = t1
    t2 = t2
    a = a
    b = b
    n1 = n1
    n2 = n2
    none = none
    Openers = {t1, t2}
    NoThread = none
    Calls <- TwoThreads
    Addrs = {a}
    InboundAddrs = {b}
    Nodes = {n1, n2}
    MaxOutbound = 1
    MaxInbound = 1
INVARIANTS
    NotDeletedInUseUnlessRefound
    RefCountAccurate
    WithinLimits
PROPERTIES
    InboundDeleted
