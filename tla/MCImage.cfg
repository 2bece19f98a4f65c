SPECIFICATION Spec
CONSTANTS
    BlockSize = 4
    NameSize <- MCNameSize
    Builds <- MCBuilds
    Hosts <- MCHosts
    Asked <- MCAsked
    Lengths <- MCLengths
INVARIANTS
    PathsResolve
    ReadsExact
    NeverGarbage
    LayoutSound
PROPERTY RequestsAnswered
CHECK_DEADLOCK FALSE
