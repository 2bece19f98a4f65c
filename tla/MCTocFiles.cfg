SPECIFICATION FilesSpec
CONSTANTS
    a = a
    b = b
    c = c
    s0 = s0
    s1 = s1
    p1 = p1
    p2 = p2
    Procs = {p1, p2}
    Packages = {a, b}
    Buckets = {s0}
    EntryCount <- MCEntryCount
    Nobody = Nobody
    MaxRuns = 3
    MaxCrashes = 1
INVARIANTS
    RestoredConsistent
CHECK_DEADLOCK FALSE
