SPECIFICATION Spec
CONSTANTS
    Instances = {p, q}
    Names = {a, b}
    MaxLive = 2
    MaxRecords = 3
    MaxFaults = 2
    None = None
PROPERTY ReplacementKeepsAuthority

