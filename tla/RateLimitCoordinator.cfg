CONSTANTS
    None = None
    Streams = {s1, s2, s3}
    Keys = {k1, k2}
    KeyLimit = 2
    TotalLimit = 2
    MaxTicket = 3
    Delays = {0, 1}
    Waits = {1}
    MaxTime = 2
SPECIFICATION FairSpec
INVARIANTS
    OnePermitPerKey
    WaitersExact
PROPERTIES
    ImplementsLocks
    ReturnIsTruthful
    EveryWaitReturns
