SPECIFICATION Spec
SYMMETRY Symmetry
INVARIANTS
    TypeOK
    AutoApprovedIsRouted
    
CONSTANTS
    u1 = u1
    u2 = u2
    c1 = c1
    c2 = c2
    a = a
    b = b
    NoRow = NoRow
    Users = {u1, u2}
    Contents = {c1}
    Workers = {a, b}
    Kinds = {"bulkApprove", "bulkReject", "delete", "maintain", "route"}
    Restricted = {u2}
    Limited = {u1}
    Limit = 1
    HasRules = TRUE
    AtomicCreate = FALSE
    AutoApprove = TRUE
    ArrFails = TRUE
    DbFails = TRUE
    MaxJobs = 2
    MaxRows = 2
    MaxCrashes = 0
CHECK_DEADLOCK FALSE
