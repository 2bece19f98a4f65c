SPECIFICATION Spec
CONSTANTS
    a = a
    b = b
    c = c
    s0 = s0
    s1 = s1
    t1 = t1
    t2 = t2
    t3 = t3
    t4 = t4
    d1 = d1
    d2 = d2
    Packages = {a, b, c}
    Buckets = {s0, s1}
    EntryCount <- MCEntryCount
    Tasks = {t1, t2, t3, t4}
    Package <- MCPackage
    Bucket <- MCBucketOf
    Readers = {d1, d2}
    Wanted <- MCWanted
    Missing = Missing
INVARIANTS
    TocConsistent
    ReuseSucceeds
PROPERTY
    OnlyGrows
CHECK_DEADLOCK FALSE
