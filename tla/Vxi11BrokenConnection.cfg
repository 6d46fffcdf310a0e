SPECIFICATION Spec
CONSTANTS
    c1 = c1
    c2 = c2
    Conn = {c1, c2}
    Holder = {1, 2}
    MaxLid = 2
    MaxLinks = 2
    Name = {}
    Exclusive = "exclusive"
    NoOne = NoOne
CHECK_DEADLOCK FALSE
INVARIANT
    BrokenConnectionReleases
