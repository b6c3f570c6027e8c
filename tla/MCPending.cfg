SPECIFICATION FairSpec
INVARIANTS
    TypeOK
    ToldOnce

    
    
CONSTANTS
    w1 = w1
    w2 = w2
    u1 = u1
    u2 = u2
    Nobody = Nobody
    Webhooks = {w1, w2}
    Users = {u1, u2}
    Kinds = {"movie", "episode"}
    MaxFailures = 1
    MaxCrashes = 1
CHECK_DEADLOCK FALSE
