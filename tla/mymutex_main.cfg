\* main() of mymutex.c, a process that is blamed for its order, and two that keep
\* to it.
SPECIFICATION MainSpec
CONSTANTS
    parent = parent
    child = child
    logger = logger
    NoThread = NoThread
    NoIdent = NoIdent
    Thread = {parent, child}
    Ident = {parent, child}
    Key <- OwnKey
    Texts <- MainTexts
    Parent = parent
    NoMessage = NoMessage
    QueueMax = 1
    MaxSent = 30
    Jyunban <- MainJyunban
    MYMUTEX_TYPE_MAX = 4
    MAX_MUTEX_NUM = 4
    MAX_MUTEX_GETTER_NUM = 2
    Modes = {TRUE, FALSE}
    Careless = FALSE
    StrayUnlock = FALSE
    MayDie = {child}
    CountBound = 0
INVARIANTS ReleasedAlone NobodyBlamed
PROPERTIES EndsOrTold AlarmWritten GuardReturns AllFinish
\* The processes end, or are deadlocked.
CHECK_DEADLOCK FALSE
