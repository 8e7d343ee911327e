CONSTANTS
    c1 = c1
    c2 = c2
    anon = anon
    Callers = {c1, c2}
    Identity <- MCIdentity
    Anonymous = anon
    QueuedKinds = {"REQUEST"}
    ImmediateKinds = {"BUFFERED_BYTES"}
    Limits <- MCLimits
    QueueLimits <- MCQueueLimits
    Waits <- MCWaits
    Amounts = {1, 2}
    MaxTicket = 3
    MaxTime = 2
SPECIFICATION FairSpec
INVARIANTS
    UsageExact
    WithinLimits
    NoStrandedTicket
PROPERTIES
    FifoWithinKey
    NothingGrantedAfterTerminal
    ReturnIsTruthful
    EveryCallReturns
