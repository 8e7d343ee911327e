SPECIFICATION FairSpec
CONSTANTS
    c1 = c1
    c2 = c2
    k1 = k1
    k2 = k2
    Contexts <- MCContexts
    Connectors <- MCConnectors
    MaxGenerations = 2
    Nobody = Nobody
    Null = Null
INVARIANTS
    CatalogMatchesRegistry
    LocksFollowStatements
PROPERTIES
    ImplementsPublication
    ReportedChangeIsActive
    EveryStatementEnds
