SPECIFICATION Spec
CONSTANTS
    t1 = t1
    t2 = t2
    a = a
    b = b
    n1 = n1
    n2 = n2
    none = none
    Openers = {t1}
    NoThread = none
    Calls <- OneThread
    Addrs = {a}
    InboundAddrs = {b}
    Nodes = {n1}
    MaxOutbound = 1
    MaxInbound = 0
INVARIANTS
    SlotReturned
