SPECIFICATION Spec
CONSTANTS
    c1 = c1
    c2 = c2
    Client = {c1, c2}
    Holder = {0, 2}
    Name = {}
    Exclusive = "exclusive"
    NoOne = NoOne
    MaxSessions = 2
    MaxLevels = 1
    OrderlyClose = FALSE
CHECK_DEADLOCK FALSE
INVARIANT
    NoOrphanLock
