\* The server under fair scheduling, with clients that read; two descriptors.
SPECIFICATION FairSpec
CONSTANTS
    c1 = c1
    c2 = c2
    c3 = c3
    NoClient = NoClient
    Client = {c1, c2, c3}
    MAX_CHILD = 2
    BufMax = 2
    MaxSent <- TwoOneNone
    Nuls = {2}
    Signals = {"stop", "other"}
    MayLeave = {c2}
    Platforms = {FALSE}
    MayAbort = FALSE
    FdLimit = 2
INVARIANTS SlotsMatch
PROPERTIES LeftFreed StopEnds WaitingAnswered
\* When every client has left or has no more to say, nothing happens.
CHECK_DEADLOCK FALSE
