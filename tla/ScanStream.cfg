SPECIFICATION FairHSpec
CONSTANTS
    Profiles <- MCProfiles
    MaxTime = 2
    Delays = {1}
    GuidanceDelays = {0, 1}
    Buckets = {b1, b2}
    Unfrozen = Unfrozen
    BatchRows = 1
    PageSize = 1
INVARIANTS
    AggregateRespected
    TransportAuthorised
    WaitsHoldNothing
    ReplayOnlyUnaccepted
    RowsConserved
    NothingHeldAfterEnd
    CancelStopsRequests
PROPERTIES
    EveryPullReturns
