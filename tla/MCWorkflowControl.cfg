SPECIFICATION FairSpec
INVARIANTS
    TypeOK
    SecondPollerWasRevived
PROPERTY RunningReconciles
CONSTANTS
    None = None
    Calls <- MCCalls
    Chains <- MCChains
    MaxStarts = 2
    MaxStops = 2
    MaxFaults = 1
    MaxCrashes = 1
CHECK_DEADLOCK FALSE
