\* Three clients for two slots, on both platforms; buffers of two units.
SPECIFICATION RelaySpec
CONSTANTS
    c1 = c1
    c2 = c2
    c3 = c3
    NoClient = NoClient
    Client = {c1, c2, c3}
    MAX_CHILD = 2
    BufMax = 2
    MaxSent <- TwoOneNone
    Nuls = {}
    Signals = {}
    MayLeave = {c1, c2}
    Platforms = {TRUE, FALSE}
    MayAbort = TRUE
    FdLimit = 4
INVARIANTS TypeOK SlotsMatch SameOrder
PROPERTIES KeptWhileUp ImplementsRelay
\* When every client has left or has no more to say, nothing happens.
CHECK_DEADLOCK FALSE
