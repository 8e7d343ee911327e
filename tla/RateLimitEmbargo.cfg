CONSTANTS
    None = None
    Streams = {s1, s2}
    Keys = {k1}
    KeyLimit = 2
    TotalLimit = 2
    MaxTicket = 4
    Delays = {0, 1}
    Waits = {1, 2}
    MaxTime = 2
SPECIFICATION HSpec
PROPERTIES
    EmbargoNeverShortened
