\* The log is released while others log, a queue of one message.
SPECIFICATION FairSpec
CONSTANTS
    m1 = m1
    m2 = m2
    w1 = w1
    w2 = w2
    l1 = l1
    l2 = l2
    text = text
    NoProcess = NoProcess
    NoMessage = NoMessage
    Main = {m1}
    Worker = {w1}
    Logger = {l1}
    Content = {text}
    QueueMax = 1
    MaxSent = 2
    MayFail = TRUE
    MayCrash = {}
    MayRelease = {m1}
    Direct = TRUE
INVARIANTS TypeOK
PROPERTIES SendersReturn WriterReturns AcceptedMovesOn
\* The senders' messages run out.
CHECK_DEADLOCK FALSE
