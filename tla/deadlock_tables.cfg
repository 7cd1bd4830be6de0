\* Every table of four rows and three lockable types.
SPECIFICATION Spec
CONSTANTS
    NoIdent = NoIdent
    id1 = id1
    Ident = {id1}
    MYMUTEX_TYPE_MAX = 4
    MAX_MUTEX_NUM = 4
    MAX_MUTEX_GETTER_NUM = 4
INVARIANTS YesOnRing LoopsBesideRing
\* One check per table.
CHECK_DEADLOCK FALSE
