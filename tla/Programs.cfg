SPECIFICATION ProgramsSpec
CONSTANTS
    c1 = c1
    c2 = c2
    Client = {c1, c2}
    NoClient = NoClient
    p1 = p1
    p2 = p2
    Port = {p1, p2}
    MaxPlugs = 2
    Mine = 1024
    Other = 1025
    MaxUdpFaults = 2
    MaxRestarts = 2
    MaxLines = 3
    MaxPushes = 1
CHECK_DEADLOCK FALSE
INVARIANTS
    SlotMatchesStream
    WritesFindController
    ChosenPortOnly
    Withdrawn
    
PROPERTIES
    CaptureEnds
    Settles
