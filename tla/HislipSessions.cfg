SPECIFICATION FairSpec
CONSTANTS
    c1 = c1
    c2 = c2
    Client = {c1, c2}
    Holder = {0, 2}
    Name = {"k"}
    Exclusive = "exclusive"
    NoOne = NoOne
    MaxSessions = 2
    MaxLevels = 1
    OrderlyClose = TRUE
CHECK_DEADLOCK FALSE
INVARIANTS
    EntryIsOwn
    
PROPERTY
    SlotReclaimed
