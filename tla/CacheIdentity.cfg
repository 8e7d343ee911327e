SPECIFICATION Spec
CONSTANTS
    Shape <- MCShape
    Spell <- MCSpell
    Scenarios <- OwnerScenarios
    MaxBigint = 536870912
    MaxUnsigned = 1073741824
    MaxDepth = 3
    MaxNodes = 6
INVARIANT IdentityTellsRequests
