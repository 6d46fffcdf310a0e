SPECIFICATION Spec
CONSTANTS
    Pad = {p}
    NoPad = NoPad
    MAX_RESYNC = 2
    MaxFaults = 1
INVARIANT
    NotStranded
