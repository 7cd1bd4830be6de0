\* Three threads that pair their calls, three lockable types, a row for each.
SPECIFICATION Spec
CONSTANTS
    t1 = t1
    t2 = t2
    t3 = t3
    t4 = t4
    NoThread = NoThread
    NoIdent = NoIdent
    Thread = {t1, t2, t3}
    Ident = {t1, t2, t3}
    Key <- OwnKey
    Jyunban <- MainJyunban
    MYMUTEX_TYPE_MAX = 4
    MAX_MUTEX_NUM = 4
    MAX_MUTEX_GETTER_NUM = 3
    Modes = {TRUE}
    Careless = FALSE
    StrayUnlock = FALSE
    MayDie = {}
    CountBound = 0
SYMMETRY ThreadSymmetry
INVARIANTS TypeOK MutualExclusion TableTellsOwners AlarmsAreRings
PROPERTIES ImplementsLockManager RingsStay
\* Callers that lock in opposite orders deadlock.
CHECK_DEADLOCK FALSE
