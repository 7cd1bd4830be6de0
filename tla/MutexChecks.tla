---------------------------- MODULE MutexChecks ----------------------------
(***************************************************************************)
(* The two checks common/mymutex.c makes on its shared table of getters:   *)
(* isDeadLock, the walk along "who holds what I wait for", and             *)
(* isLockJyunbanOk, the comparison of the recorded mutexes with the        *)
(* configured locking order (jyunban).                                     *)
(*                                                                         *)
(* A getter is a row [id, get_mutex_type, wait_mutex_type, is_used,        *)
(* is_waited].  The mark "counted" is reset whenever isDeadLock starts and *)
(* read nowhere else, so it is a local set of the walk; comments[] is only *)
(* text and left out.                                                      *)
(***************************************************************************)
EXTENDS Integers, FiniteSets, FiniteSetsExt

CONSTANTS
    MYMUTEX_TYPE_MAX,        \* the lockable types are 1 .. MYMUTEX_TYPE_MAX - 1
    MAX_MUTEX_NUM,           \* slots of get_mutex_type in a row
    MAX_MUTEX_GETTER_NUM,    \* rows of the table
    Ident,                   \* the (process_id, thread_id) pairs
    NoIdent                  \* the pair (0, 0) of an unused row

ASSUME SizeAssumption ==
    /\ MYMUTEX_TYPE_MAX \in Nat \ {0}
    /\ MAX_MUTEX_NUM \in Nat \ {0}
    /\ MAX_MUTEX_GETTER_NUM \in Nat \ {0}
    /\ NoIdent \notin Ident

BEFORELOCK == 0
LockType == 1 .. MYMUTEX_TYPE_MAX - 1
Mutex == {BEFORELOCK} \cup LockType
Slot == 0 .. MAX_MUTEX_NUM - 1
Getter == 0 .. MAX_MUTEX_GETTER_NUM - 1
NoGetter == MAX_MUTEX_GETTER_NUM

\* type_mymutexgetter; 0 stands for "no type" in both mutex fields.
Row == [ id : Ident \cup {NoIdent},
         get_mutex_type : [Slot -> Mutex],
         wait_mutex_type : Mutex,
         is_used : BOOLEAN,
         is_waited : BOOLEAN ]

EmptyRow == [ id |-> NoIdent, get_mutex_type |-> [m \in Slot |-> 0],
              wait_mutex_type |-> 0, is_used |-> FALSE, is_waited |-> FALSE ]

\* The types a row records as held.
Held(row) == {row.get_mutex_type[m] : m \in Slot} \ {0}

----------------------------------------------------------------------------
(* isDeadLock *)

\* The first used row that records type t; both search loops break on it.
HolderOf(tbl, t) ==
    LET rows == {k \in Getter : tbl[k].is_used /\ t \in Held(tbl[k])}
    IN  IF rows = {} THEN NoGetter ELSE Min(rows)

\* Faulty variant: the loop does not look whether every used row is counted.
DecidedUncounted(tbl, me, s) ==
    s.at = NoGetter \/ ~tbl[s.at].is_waited \/ s.at = me

\* The while(1) loop returns from here: no holder was found, the row reached
\* does not wait, the walk is back at its start, or every used row is counted.
Decided(tbl, me, s) ==
    \/ s.at = NoGetter
    \/ ~tbl[s.at].is_waited
    \/ s.at = me
    \/ \A k \in Getter : tbl[k].is_used => k \in s.counted

\* Faulty variant: only the other row that holds the wanted mutex is looked at,
\* not the ones it waits for in turn.
isDeadLockDirect(tbl, me) ==
    LET next == HolderOf(tbl, tbl[me].wait_mutex_type)
    IN  IF next = NoGetter THEN "NO"
        ELSE IF /\ next # me /\ tbl[next].is_waited
                /\ HolderOf(tbl, tbl[next].wait_mutex_type) = me
             THEN "YES" ELSE "NO"

\* Where the walk goes from each row, whether or not that row waits.
Onward(tbl) ==
    [row \in Getter \cup {NoGetter} |->
        IF row = NoGetter THEN NoGetter ELSE HolderOf(tbl, tbl[row].wait_mutex_type)]

\* The walk of tempgetter from row me: Walk(tbl, me)[n] is the row it reaches in
\* step n.
Walk(tbl, me) ==
    LET at[n \in 0 .. MAX_MUTEX_GETTER_NUM] == Onward(tbl)[IF n = 0 THEN me ELSE at[n - 1]]
    IN  at

\* A row is counted when the walk leaves it.  After one step per row everything
\* reachable is counted, so a walk still undecided then repeats its rows for
\* ever: the loop does not return.
isDeadLock(tbl, me) ==
    LET at == Walk(tbl, me)
        returns == {n \in DOMAIN at :
            Decided(tbl, me, [at |-> at[n],
                              counted |-> {me} \cup {at[m] : m \in 0 .. n - 1}])}
    IN  IF returns = {} THEN "LOOPS"
        ELSE IF at[Min(returns)] = me /\ tbl[me].is_waited THEN "YES"
        ELSE "NO"

----------------------------------------------------------------------------
(* isLockJyunbanOk *)

\* Where type t stands in the configured order: the scan keeps the last match.
Places(mmj, t) == {k \in Slot : mmj[k] = t}

\* Two different types may stand in slots i < j only in the configured order.
InOrder(mmj, first, later) ==
    /\ Places(mmj, first) # {} /\ Places(mmj, later) # {}
    /\ Max(Places(mmj, first)) < Max(Places(mmj, later))

\* The requested type is a parameter of the C function that it never reads.
isLockJyunbanOk(mmj, row) ==
    \A i, j \in Slot :
        LET first == row.get_mutex_type[i]
            later == row.get_mutex_type[j]
        IN  (i < j /\ first # later /\ first # 0 /\ later # 0)
                => InOrder(mmj, first, later)

=============================================================================
