SPECIFICATION FairSpec
INVARIANTS
    TypeOK
    NoStrandedSeason
    OneSendPerBatch
    QuietBatchesDispatched
PROPERTIES
    LeakedTimersWereRaced
    SeasonsDrain
CONSTANTS
    w1 = w1
    w2 = w2
    w3 = w3
    None = None
    Webhooks = {w1, w2, w3}
    Seasons = {1, 2}
    Episodes = {1, 2, 3}
    Requests <- MCRequests
    ExpectedCount <- MCExpectedCount
    CanFail = TRUE
CHECK_DEADLOCK FALSE
