SPECIFICATION FairSpec
INVARIANTS
    TypeOK
    
    ProtectedIsKept
    WithinLimit
    
PROPERTIES
    
    UnwatchedGoes
    OrphansGo
CONSTANTS
    friend = friend
    owner = owner
    film = film
    drama = drama
    other = other
    Friends = {friend}
    Owner = owner
    Contents = {film, drama, other}
    Shows = {drama}
    Configs <- MCConfigs
    Limit = 50
    Wanted <- MCWanted
    Stocked = {film, drama}
    MaxChanges = 2
    MaxFaults = 1
    MaxCrashes = 1
CHECK_DEADLOCK FALSE
