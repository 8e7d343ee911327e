SPECIFICATION ProviderSpec
CONSTANTS
    Instances = {p, q}
    Client = p
    Resolvable = {a}
    Names = {a, b}
    MaxLive = 2
    MaxRecords = 2
    MaxFaults = 2
    None = None
INVARIANTS
    SelectedReadable
    NoOrphanRecord
    LiveMatchesRestart
    CollisionFails
PROPERTIES
    ImplementsStore
