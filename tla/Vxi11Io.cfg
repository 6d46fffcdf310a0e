SPECIFICATION FairSpec
CONSTANTS
    c = c
    d = d
    Conn = {c, d}
    Raw = d
    Nobody = Nobody
    Chunks = 2
    Request = 2
    Say = 3
    Budget = 3
    Slice = 2
    Floor = 2
    Steps = {1, 3}
    Default = 9
CHECK_DEADLOCK FALSE
INVARIANTS
    SettingsRestored
    TransfersWhole
    TenureBounded
PROPERTY
    CallsReturn
