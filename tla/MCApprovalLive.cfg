SPECIFICATION FairSpec
INVARIANT RoutedWasGranted
PROPERTIES
    ApprovedGetsRouted
    DecisionsKept
CONSTANTS
    u1 = u1
    u2 = u2
    c1 = c1
    c2 = c2
    a = a
    b = b
    NoRow = NoRow
    Users = {u1, u2}
    Contents = {c1}
    Workers = {a, b}
    Kinds = {"approve", "bulkApprove", "delete", "maintain", "route"}
    Restricted = {u1, u2}
    Limited = {}
    Limit = 1
    HasRules = FALSE
    AtomicCreate = TRUE
    AutoApprove = TRUE
    ArrFails = FALSE
    DbFails = FALSE
    MaxJobs = 2
    MaxRows = 2
    MaxCrashes = 1
CHECK_DEADLOCK FALSE
