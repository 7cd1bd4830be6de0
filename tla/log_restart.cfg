\* The process that ran initlog dies; another runs it while the old logger lives.
SPECIFICATION Spec
CONSTANTS
    m1 = m1
    m2 = m2
    w1 = w1
    w2 = w2
    l1 = l1
    l2 = l2
    text = text
    NoProcess = NoProcess
    NoMessage = NoMessage
    Main = {m1, m2}
    Worker = {w1}
    Logger = {l1, l2}
    Content = {text}
    QueueMax = 2
    MaxSent = 2
    MayFail = FALSE
    MayCrash = {m1}
    MayRelease = {}
    Direct = TRUE
INVARIANTS AcceptedNotLost NothingTwice WrittenInOrder
\* The senders' messages run out.
CHECK_DEADLOCK FALSE
