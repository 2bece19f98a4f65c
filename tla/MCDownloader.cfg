SPECIFICATION FairSpec
CONSTANTS
    Packages = {k1, k2, k3, k4}
    Known = {k4}
    MaxRetry = 1
    HttpCount = 1
    BucketCount = 1
    Faults = {"http", "store", "reuse"}
INVARIANTS
    StoredOnce
    FirstTry
PROPERTIES
    AllEnds
CHECK_DEADLOCK FALSE
