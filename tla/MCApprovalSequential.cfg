SPECIFICATION Spec
 
PROPERTY LifecycleSpec
CONSTANTS
    u1 = u1
    u2 = u2
    c1 = c1
    c2 = c2
    a = a
    b = b
    NoRow = NoRow
    Users = {u1}
    Contents = {c1, c2}
    Workers = {a}
    Kinds = {"reject", "delete", "reeval", "maintain", "route"}
    Restricted = {}
    Limited = {u1}
    Limit = 1
    HasRules = FALSE
    AtomicCreate = TRUE
    AutoApprove = FALSE
    ArrFails = TRUE
    DbFails = FALSE
    MaxJobs = 4
    MaxRows = 2
    MaxCrashes = 0
CHECK_DEADLOCK FALSE
