SPECIFICATION FairSpec
CONSTANTS
    SupportsOverlapped = TRUE
    MaxId = 3
    MaxClears = 2
    MaxChunks = 2
    MaxQueue = 2
CHECK_DEADLOCK FALSE
INVARIANTS
    RepliesAreCurrent
    OverlappedNumbering
    MavTruthful
    

    
