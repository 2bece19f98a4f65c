SPECIFICATION FairSpec
CONSTANTS
    None = None
    PackageJson <- MCPackageJson
    Gyps <- MCGyps
    Toc <- MCToc
    Parse <- MCParse
    Platform <- MCPlatform
    Projects <- MCProjects
    MaxCommands = 3
    MaxFaults = 1
INVARIANTS
    FilesPlaced
    LinksResolve
    ReportsAreTrue
    OnlyFaultsFail
PROPERTIES
    RemovedUnmounted
    CommandsSettle
CHECK_DEADLOCK FALSE
