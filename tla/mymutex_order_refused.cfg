\* Two threads, one of which may lock against the configured order.
SPECIFICATION Spec
CONSTANTS
    t1 = t1
    t2 = t2
    t3 = t3
    t4 = t4
    NoThread = NoThread
    NoIdent = NoIdent
    Thread = {t1, t2}
    Ident = {t1, t2}
    Key <- OwnKey
    Jyunban <- MainJyunban
    MYMUTEX_TYPE_MAX = 4
    MAX_MUTEX_NUM = 4
    MAX_MUTEX_GETTER_NUM = 3
    Modes = {TRUE}
    Careless = FALSE
    StrayUnlock = FALSE
    MayDie = {}
    CountBound = 0
PROPERTIES OutOfOrderRefused
\* Callers that lock in opposite orders deadlock.
CHECK_DEADLOCK FALSE
