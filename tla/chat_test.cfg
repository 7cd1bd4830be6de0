\* The three test programs and the daemon; two clients stand for the sixteen.
SPECIFICATION FairTestSpec
CONSTANTS
    c1 = c1
    c2 = c2
    NoClient = NoClient
    Client = {c1, c2}
    Order <- MadeInOrder
    Tests = {0, 1, 2}
    MAX_CHILD = 2
    BufMax = 2
    MaxSent <- OneEach
    Nuls = {2}
    Signals = {"stop"}
    MayLeave = {c1, c2}
    Platforms = {FALSE}
    MayAbort = FALSE
    FdLimit = 2
    MayFail = TRUE
INVARIANTS PrintedAsJudged OkMeansServed OneServer
PROPERTIES EverybodyEnds
\* Everybody has ended.
CHECK_DEADLOCK FALSE
