SPECIFICATION Spec
CONSTANTS
    NameLen = 5
    PrefixLen = 4
    Radix = 2
    SizeDigits = 2
    Jobs <- MCJobs
    Cuts <- MCCuts
    None = None
    TarPrefix <- MCPrefix
    Listened <- MCListened
    PipeCap = 2
    Base = 3
CHECK_DEADLOCK FALSE
INVARIANT EntriesComplete
