SPECIFICATION FairSpec
CONSTANTS
    Exclusive = Exclusive
    NoOne = NoOne
    h1 = h1  h2 = h2
    t2 = t2  s1 = s1  a1 = a1
    Holder = {h1, h2}
    Task = {s1, a1, t2}
    HolderOf <- TwoChannels
    Resource = {"gpib3"}
    Name = {"k", "m"}
    MaxDepth = 2
INVARIANTS
    TypeOK
    Exclusion
    TablesAgree
    Balanced
    NoLostWakeups
PROPERTIES
    ImplementsInstrumentLock
    RequestAnswered
