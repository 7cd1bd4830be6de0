\* Fewer rows than threads, callers that relock, and a thread that may be killed.
SPECIFICATION Spec
CONSTANTS
    t1 = t1
    t2 = t2
    t3 = t3
    t4 = t4
    NoThread = NoThread
    NoIdent = NoIdent
    Thread = {t1, t2, t3}
    Ident = {t1, t2, t3}
    Key <- OwnKey
    Jyunban <- MainJyunban
    MYMUTEX_TYPE_MAX = 3
    MAX_MUTEX_NUM = 3
    MAX_MUTEX_GETTER_NUM = 2
    Modes = {TRUE}
    Careless = TRUE
    StrayUnlock = FALSE
    MayDie = {t3}
    CountBound = 0
INVARIANTS InsideOwns OnlyRefusedIntrude RowsShowWaits RingReported GuardNotKept
PROPERTIES AbandonedStaysLocked
\* A thread that relocks, or waits for a mutex of the dead, waits for ever.
CHECK_DEADLOCK FALSE
