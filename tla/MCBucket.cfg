SPECIFICATION Spec
CONSTANTS
    a = a
    b = b
    p1 = p1
    p2 = p2
    Procs = {p1, p2}
    Packages = {a, b}
    EntryCount <- MCEntryCount
    Listened <- MCListened
    BufCap = 6
    MaxRuns = 3
    MaxAdds = 2
    NoProc = NoProc
    NoPackage = NoPackage
    Zero = Zero
INVARIANTS
    OneWriter
    OffsetsHold
    ListenedReadable
PROPERTY
    SavedIsRestored
CHECK_DEADLOCK FALSE
