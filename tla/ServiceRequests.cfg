SPECIFICATION FairSpec
CONSTANTS
    a = a
    b = b
    s = s
    t = t
    l = l
    m = m
    iface = iface
    Free = Free
    Dev <- MCDev
    sre <- MCsre
    Session = {s}
    User = {s, t}
    devOf <- MCdevOf
    Link = {l, m, iface}
    Interface = {iface}
    linkDev <- MClinkDev
    Chan = {1}
    Subscriber <- MCSubscriber
    MaxRequests = 1
    SRQ_QUEUE_DEPTH = 1
    MaxCommands = 0
    MaxQueries = 0
    MaxCalls = 2
CHECK_DEADLOCK FALSE
INVARIANTS
    AnnouncedOnce
PROPERTIES
    ReportReachesLink
    StoppedForwarderLeaves
