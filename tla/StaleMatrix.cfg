CONSTANTS
    s1 = s1
    s2 = s2
    s3 = s3
    k1 = k1
    k2 = k2
    k3 = k3
    Nobody = Nobody
    Streams <- MCStreams
    Keys <- MCKeys
    BatchSizes <- MCBatchSizes
    Failures <- MCFailures
    FreshTime = 1
    StaleTime = 1
    MaxEntries = 2
    MaxBytes = 3
    MaxEntryBytes = 2
    ResidentLimit = 4
    MaxBatches = 2
    MaxTime = 2
SPECIFICATION Spec
SYMMETRY Symmetry
INVARIANT StaleMatrixClosed
CHECK_DEADLOCK FALSE
