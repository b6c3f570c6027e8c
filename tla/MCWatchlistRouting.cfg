SPECIFICATION FairSpec
INVARIANTS
    TypeOK
    DeferredOnce
    SeenIsSaved
PROPERTIES
    
    DeferredIsTried
CONSTANTS
    u1 = u1
    u2 = u2
    i1 = i1
    i2 = i2
    d1 = d1
    d2 = d2
    None = None
    Users = {u1}
    Items = {i1, i2}
    OnPlex = {i2}
    Drains = {d1, d2}
    MaxOutages = 1
    MaxFaults = 1
    MaxRestarts = 1
    CalmOutages = FALSE
