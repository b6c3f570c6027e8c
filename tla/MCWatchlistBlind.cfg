SPECIFICATION Spec
INVARIANTS
    OnPlexNotRouted
CONSTANTS
    u1 = u1
    u2 = u2
    i1 = i1
    i2 = i2
    d1 = d1
    d2 = d2
    None = None
    Users = {u1}
    Items = {i1}
    OnPlex = {i1}
    Drains = {d1, d2}
    MaxOutages = 1
    MaxFaults = 0
    MaxRestarts = 0
    CalmOutages = TRUE
