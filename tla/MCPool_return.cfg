SPECIFICATION DrainedSpec
CONSTANTS
    d1 = d1
    d2 = d2
    c1 = c1
    c2 = c2
    c3 = c3
    c4 = c4
    e1 = e1
    e2 = e2
    Executors = {e1, e2}
    Callers <- MCOneCaller
    Commands = {c1, c2, c3, c4}
    Owner <- MCOwner4
    Streaming <- MCNoStreaming
    ChanCap = 1
    NoExecutor = NoExecutor
    NoCommand = NoCommand
PROPERTY
    BatchReturns
CHECK_DEADLOCK FALSE
