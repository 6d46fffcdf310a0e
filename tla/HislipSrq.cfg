SPECIFICATION FairSpec
CONSTANTS
    a = a
    b = b
    s = s
    t = t
    l = l
    m = m
    iface = iface
    Free = Free
    Dev <- MCDev
    sre <- MCsre
    Session = {s}
    User = {s, t}
    devOf <- MCdevOf
    Link = {}
    Interface = {}
    linkDev <- MClinkDev
    Chan = {}
    Subscriber <- MCSubscriber
    MaxRequests = 2
    SRQ_QUEUE_DEPTH = 1
    MaxCommands = 2
    MaxQueries = 1
    MaxCalls = 0
CHECK_DEADLOCK FALSE
INVARIANTS
    HandedOverOnce

    
