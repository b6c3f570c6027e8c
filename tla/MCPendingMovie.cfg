SPECIFICATION Spec
SYMMETRY Symmetry
INVARIANT RecordedOnce
CONSTANTS
    w1 = w1
    w2 = w2
    u1 = u1
    u2 = u2
    Nobody = Nobody
    Webhooks = {w1, w2}
    Users = {u1, u2}
    Kinds = {"movie"}
    MaxFailures = 0
    MaxCrashes = 0
CHECK_DEADLOCK FALSE
