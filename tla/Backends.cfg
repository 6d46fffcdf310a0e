SPECIFICATION BackendsSpec
CONSTANTS
    Pad = {p, q}
    NoPad = NoPad
    MAX_RESYNC = 4
    MaxFaults = 2
    Parts = 2
    Sizes = {1, 3}
    READ_RESYNC_ATTEMPTS = 2
    MaxTmcFaults = 2
    MaxLate = 2
    MaxCtlFaults = 1
    MaxOwed = 1
INVARIANTS
    OwnReply
    AddressingIsTrue
    
    MonitorKept
    AnswersWhole

    
