SPECIFICATION FairSpec
INVARIANTS
    TypeOK
    
PROPERTIES
    
    MarkKept
    
    
CONSTANTS
    u1 = u1
    u2 = u2
    None = None
    Users = {u1, u2}
    Handlers = {1, 2}
    Kinds = {"pilotRolling", "firstSeasonRolling", "allSeasonPilotRolling"}
    Seasons = 3
    Episodes = 3
    Threshold = 2
    Plays <- MCPlays
    MaxPlays = 2
    MaxFaults = 1
CHECK_DEADLOCK FALSE
