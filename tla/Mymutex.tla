------------------------------ MODULE Mymutex ------------------------------
(***************************************************************************)
(* common/mymutex.c: mutexes shared by processes and threads, with a table *)
(* of getters (who holds what, who waits for what) kept in shared memory   *)
(* under one more mutex, BEFORELOCK.  mymutex_lock publishes its request   *)
(* in the table, looks for a deadlock, gives BEFORELOCK back, blocks on    *)
(* the pthread mutex and records the acquisition; mymutex_unlock does the  *)
(* reverse.  The pthread (not IAMWINDOWS) build is modelled.               *)
(*                                                                         *)
(* One action is one stretch of a call between two points at which another *)
(* thread can interfere: an acquisition of BEFORELOCK, the stretch run     *)
(* under it, the blocking pthread_mutex_lock.                              *)
(***************************************************************************)
EXTENDS MutexChecks

CONSTANTS
    Thread,         \* the callers
    Key,            \* Key[p] is what (getpid(), gettid()) returns in p
    NoThread,       \* owner of a free pthread mutex
    Jyunban,        \* mmjyunban, the locking order given to init_mymutex
    Modes,          \* the values init_mymutex may give to g_beforelock
    Careless,       \* callers may lock a type they are inside, or one that is none
    StrayUnlock,    \* callers may unlock a type they are not inside
    MayDie,         \* the threads a signal may kill
    CountBound      \* how far stray unlocks may drive mutex_lock_count down

ASSUME ThreadAssumption ==
    /\ NoThread \notin Thread
    /\ Key \in [Thread -> Ident]
    /\ Jyunban \in [Slot -> Mutex]
    /\ Modes \subseteq BOOLEAN
    /\ Careless \in BOOLEAN /\ StrayUnlock \in BOOLEAN
    /\ MayDie \subseteq Thread
    /\ CountBound \in Nat

VARIABLES
    g_beforelock,       \* calls work under BEFORELOCK: MYMUTEX_USE_BEFORELOCK
    owner,              \* the thread each pthread mutex is locked by
    mutex_lock_count,   \* per lockable type, in shared memory
    mmgetter,           \* the table of getters, in shared memory
    pc, mutex_type, mmindex,   \* where each call is, its argument, its row
    inside,             \* types each caller has locked and not begun to unlock
    logged              \* what mylog was told by each caller's last call

vars == <<g_beforelock, owner, mutex_lock_count, mmgetter, pc, mutex_type, mmindex,
          inside, logged>>

\* The stretches of a call run under BEFORELOCK, and those that wait for it.
UnderGuard == {"lk_check", "lk_record", "ul_raw", "ul_clear", "spin"}
WantsGuard == {"lk_guard", "lk_back", "ul_guard"}
PC == {"idle", "lk_wait", "raw_wait", "dead"} \cup UnderGuard \cup WantsGuard

Complaint == {"bad_type", "no_getter", "lock_order", "deadlock",
              "unlock_order", "not_locked"}

TypeOK ==
    /\ g_beforelock \in BOOLEAN
    /\ owner \in [Mutex -> Thread \cup {NoThread}]
    /\ mutex_lock_count \in [LockType -> Int]
    /\ mmgetter \in [Getter -> Row]
    /\ pc \in [Thread -> PC]
    /\ mutex_type \in [Thread -> Mutex]
    /\ mmindex \in [Thread -> Getter]
    /\ inside \in [Thread -> SUBSET LockType]
    /\ logged \in [Thread -> SUBSET Complaint]

\* init_mymutex, run once by the first process before it forks.
Init ==
    /\ g_beforelock \in Modes
    /\ owner = [t \in Mutex |-> NoThread]
    /\ mutex_lock_count = [t \in LockType |-> 0]
    /\ mmgetter = [i \in Getter |-> EmptyRow]
    /\ pc = [p \in Thread |-> "idle"]
    /\ mutex_type = [p \in Thread |-> 0]
    /\ mmindex = [p \in Thread |-> 0]
    /\ inside = [p \in Thread |-> {}]
    /\ logged = [p \in Thread |-> {}]

----------------------------------------------------------------------------
(* Helpers *)

\* The rows of p's process and thread: the search on (pid, tid).
RowsOf(p) == {i \in Getter : mmgetter[i].is_used /\ mmgetter[i].id = Key[p]}
Registered(p) == RowsOf(p) # {}

\* Faulty variant: the search for a free row stops before the last.
FreeRowsButLast == {i \in Getter : ~mmgetter[i].is_used /\ i + 1 \in Getter}
FreeRows == {i \in Getter : ~mmgetter[i].is_used}

Goto(p, l) == pc' = [pc EXCEPT ![p] = l]
Complain(p, c) == logged' = [logged EXCEPT ![p] = @ \cup c]
If(b, c) == IF b THEN {c} ELSE {}

\* p releases BEFORELOCK and returns from its call.
ReturnReleasing(p) ==
    /\ owner' = [owner EXCEPT ![BEFORELOCK] = NoThread]
    /\ Goto(p, "idle")

\* pthread_mutex_unlock(t) by p.  Unlocking another's mutex is undefined: the
\* default mutex of glibc is released, an implementation that checks refuses.
UnlockedBy(p, t) ==
    IF owner[t] = p THEN {NoThread} ELSE {owner[t], NoThread}

----------------------------------------------------------------------------
(* Calls *)

\* An argument that names no lockable type is logged and the call returns.
RefuseType(p) ==
    /\ pc[p] = "idle"
    /\ Careless
    /\ logged' = [logged EXCEPT ![p] = {"bad_type"}]
    /\ UNCHANGED <<owner, mutex_lock_count, mmgetter, pc, mutex_type, mmindex, inside>>

CallLock(p, t) ==
    /\ pc[p] = "idle"
    /\ Careless \/ t \notin inside[p]
    /\ mutex_type' = [mutex_type EXCEPT ![p] = t]
    /\ logged' = [logged EXCEPT ![p] = {}]
    /\ Goto(p, IF g_beforelock THEN "lk_guard" ELSE "raw_wait")
    /\ UNCHANGED <<owner, mutex_lock_count, mmgetter, mmindex, inside>>

CallUnlock(p, t) ==
    /\ pc[p] = "idle"
    /\ t \in inside[p] \/ (StrayUnlock /\ mutex_lock_count[t] > -CountBound)
    /\ inside' = [inside EXCEPT ![p] = @ \ {t}]
    /\ mutex_type' = [mutex_type EXCEPT ![p] = t]
    /\ logged' = [logged EXCEPT ![p] = {}]
    /\ \/ g_beforelock /\ Goto(p, "ul_guard") /\ UNCHANGED owner
       \/ /\ ~g_beforelock
          /\ \E o \in UnlockedBy(p, t) : owner' = [owner EXCEPT ![t] = o]
          /\ UNCHANGED pc
    /\ UNCHANGED <<mutex_lock_count, mmgetter, mmindex>>

\* The pthread_mutex_lock of a caller that does not use BEFORELOCK.
RawTake(p) ==
    /\ pc[p] = "raw_wait"
    /\ owner[mutex_type[p]] = NoThread
    /\ owner' = [owner EXCEPT ![mutex_type[p]] = p]
    /\ inside' = [inside EXCEPT ![p] = @ \cup {mutex_type[p]}]
    /\ Goto(p, "idle")
    /\ UNCHANGED <<mutex_lock_count, mmgetter, mutex_type, mmindex, logged>>

\* pthread_mutex_lock on BEFORELOCK, at each of the three places that do it.
TakeGuard(p) ==
    /\ pc[p] \in WantsGuard
    /\ owner[BEFORELOCK] = NoThread
    /\ owner' = [owner EXCEPT ![BEFORELOCK] = p]
    /\ Goto(p, CASE pc[p] = "lk_guard" -> "lk_check"
                 [] pc[p] = "lk_back" -> "lk_record"
                 [] pc[p] = "ul_guard" -> "ul_raw")
    /\ UNCHANGED <<mutex_lock_count, mmgetter, mutex_type, mmindex, inside, logged>>

----------------------------------------------------------------------------
(* mymutex_lock under BEFORELOCK *)

\* Faulty variant: the early return forgets BEFORELOCK.
LockNoGetterKeeping(p) ==
    /\ pc[p] = "lk_check"
    /\ ~Registered(p) /\ FreeRows = {}
    /\ Complain(p, {"no_getter"})
    /\ inside' = [inside EXCEPT ![p] = @ \cup {mutex_type[p]}]
    /\ Goto(p, "idle")
    /\ UNCHANGED <<owner, mutex_lock_count, mmgetter, mutex_type, mmindex>>

\* No row and none free: the error is logged and the call returns, without the
\* mutex and, being void, without telling its caller.
LockNoGetter(p) ==
    /\ pc[p] = "lk_check"
    /\ ~Registered(p) /\ FreeRows = {}
    /\ Complain(p, {"no_getter"})
    /\ inside' = [inside EXCEPT ![p] = @ \cup {mutex_type[p]}]
    /\ ReturnReleasing(p)
    /\ UNCHANGED <<mutex_lock_count, mmgetter, mutex_type, mmindex>>

\* The row of the call: the last one of this thread, else the first free one.
LockRow(p) == IF Registered(p) THEN Max(RowsOf(p)) ELSE Min(FreeRows)

\* Faulty variant: the row is not marked as waiting.
RequestedUnmarked(p) ==
    [mmgetter EXCEPT ![LockRow(p)] =
        [@ EXCEPT !.id = Key[p], !.is_used = TRUE, !.wait_mutex_type = mutex_type[p]]]

\* The table once the call has entered its request in its row.
Requested(p) ==
    [mmgetter EXCEPT ![LockRow(p)] =
        [@ EXCEPT !.id = Key[p], !.is_used = TRUE,
                  !.is_waited = TRUE, !.wait_mutex_type = mutex_type[p]]]

\* The request is published and checked.  The test for another holder (462-479)
\* always ends with bbool at MYMUTEX_YES: from 368 when no other row is in use, and
\* else from 472, where the comparison is an assignment; so every call takes the
\* path that checks for a deadlock.  A deadlock or a wrong
\* order is logged and the call goes on; a walk that loops keeps BEFORELOCK.
LockCheck(p) ==
    /\ pc[p] = "lk_check"
    /\ Registered(p) \/ FreeRows # {}
    /\ mmgetter' = Requested(p)
    /\ mmindex' = [mmindex EXCEPT ![p] = LockRow(p)]
    /\ \E verdict \in {isDeadLock(mmgetter', mmindex'[p])} :
          /\ Complain(p, If(~isLockJyunbanOk(Jyunban, mmgetter[LockRow(p)]), "lock_order")
                         \cup If(verdict = "YES", "deadlock"))
          /\ \/ verdict = "LOOPS" /\ Goto(p, "spin") /\ UNCHANGED owner
             \/ /\ verdict # "LOOPS"
                /\ Goto(p, "lk_wait")
                /\ owner' = [owner EXCEPT ![BEFORELOCK] = NoThread]
    /\ UNCHANGED <<mutex_lock_count, mutex_type, inside>>

\* Faulty variants: pthread_mutex_trylock, its result ignored; a robust mutex
\* whose EOWNERDEAD is taken for success.
TakeMutexTry(p) ==
    /\ pc[p] = "lk_wait"
    /\ owner' = [owner EXCEPT ![mutex_type[p]] = p]
    /\ Goto(p, "lk_back")
    /\ UNCHANGED <<mutex_lock_count, mmgetter, mutex_type, mmindex, inside, logged>>
TakeMutexRobust(p) ==
    /\ pc[p] = "lk_wait"
    /\ owner[mutex_type[p]] \in {NoThread} \cup {q \in Thread : pc[q] = "dead"}
    /\ owner' = [owner EXCEPT ![mutex_type[p]] = p]
    /\ Goto(p, "lk_back")
    /\ UNCHANGED <<mutex_lock_count, mmgetter, mutex_type, mmindex, inside, logged>>

\* The blocking pthread_mutex_lock; the table does not show it yet.
TakeMutex(p) ==
    /\ pc[p] = "lk_wait"
    /\ owner[mutex_type[p]] = NoThread
    /\ owner' = [owner EXCEPT ![mutex_type[p]] = p]
    /\ Goto(p, "lk_back")
    /\ UNCHANGED <<mutex_lock_count, mmgetter, mutex_type, mmindex, inside, logged>>

\* Faulty variants: the row is left waiting; slot 0 is always the one written;
\* the loop over the slots has lost its break.
RecordedWaiting(row, t) ==
    LET empty == {m \in Slot : row.get_mutex_type[m] = 0}
    IN  [row EXCEPT !.get_mutex_type = IF empty = {} THEN @
                                       ELSE [@ EXCEPT ![Min(empty)] = t]]
RecordedFirst(row, t) ==
    [row EXCEPT !.is_waited = FALSE, !.wait_mutex_type = 0, !.get_mutex_type[0] = t]
RecordedUnbroken(row, t) ==
    [row EXCEPT !.is_waited = FALSE, !.wait_mutex_type = 0,
                !.get_mutex_type = [m \in Slot |-> IF @[m] = 0 THEN t ELSE @[m]]]

\* A row that has taken type t: it waits no more and its first empty slot, if
\* there is one, holds t.
Recorded(row, t) ==
    LET empty == {m \in Slot : row.get_mutex_type[m] = 0}
    IN  [row EXCEPT !.is_waited = FALSE, !.wait_mutex_type = 0,
                    !.get_mutex_type = IF empty = {} THEN @
                                       ELSE [@ EXCEPT ![Min(empty)] = t]]

LockRecord(p) ==
    LET row == Recorded(mmgetter[mmindex[p]], mutex_type[p])
    IN  /\ pc[p] = "lk_record"
        /\ mutex_lock_count' = [mutex_lock_count EXCEPT ![mutex_type[p]] = @ + 1]
        /\ mmgetter' = [mmgetter EXCEPT ![mmindex[p]] = row]
        /\ Complain(p, If(~isLockJyunbanOk(Jyunban, row), "lock_order"))
        /\ inside' = [inside EXCEPT ![p] = @ \cup {mutex_type[p]}]
        /\ ReturnReleasing(p)
        /\ UNCHANGED <<mutex_type, mmindex>>

----------------------------------------------------------------------------
(* mymutex_unlock under BEFORELOCK *)

\* Faulty variant: the mutex is unlocked before the row is looked for.
UnlockStrangerFirst(p) ==
    /\ pc[p] = "ul_raw"
    /\ ~Registered(p)
    /\ owner' = [owner EXCEPT ![mutex_type[p]] = NoThread, ![BEFORELOCK] = NoThread]
    /\ Complain(p, {"not_locked"})
    /\ Goto(p, "idle")
    /\ UNCHANGED <<mutex_lock_count, mmgetter, mutex_type, mmindex, inside>>

\* A thread with no row is told that it unlocks what it has not locked.
UnlockStranger(p) ==
    /\ pc[p] = "ul_raw"
    /\ ~Registered(p)
    /\ Complain(p, {"not_locked"})
    /\ ReturnReleasing(p)
    /\ UNCHANGED <<mutex_lock_count, mmgetter, mutex_type, mmindex, inside>>

\* Any thread with a row unlocks the pthread mutex, whoever holds it.
UnlockRaw(p) ==
    /\ pc[p] = "ul_raw"
    /\ Registered(p)
    /\ \E o \in UnlockedBy(p, mutex_type[p]) :
           owner' = [owner EXCEPT ![mutex_type[p]] = o]
    /\ mmindex' = [mmindex EXCEPT ![p] = Min(RowsOf(p))]
    /\ Goto(p, "ul_clear")
    /\ UNCHANGED <<mutex_lock_count, mmgetter, mutex_type, inside, logged>>

\* Faulty variant: -1 for an empty slot.
ClearedToMinusOne(row, t) ==
    [row EXCEPT !.get_mutex_type = [m \in Slot |-> IF @[m] = t THEN -1 ELSE @[m]]]

\* A row with type t wiped from its slots.  The row stays in use even when its
\* slots are all empty: the code that would free it is under if (MYMUTEX_NO).
Cleared(row, t) ==
    [row EXCEPT !.get_mutex_type = [m \in Slot |-> IF @[m] = t THEN 0 ELSE @[m]]]

\* A type was recorded in a later slot than t (kk and maxk start at 0).
UnlockedOutOfOrder(row, t) ==
    LET slots == {m \in Slot : row.get_mutex_type[m] = t} \cup {0}
    IN  \E m \in Slot : m > Max(slots) /\ row.get_mutex_type[m] \notin {0, t}

\* Faulty variant: BEFORELOCK is not given back.
UnlockClearKeeping(p) ==
    LET row == mmgetter[mmindex[p]]
    IN  /\ pc[p] = "ul_clear"
        /\ mutex_lock_count' = [mutex_lock_count EXCEPT ![mutex_type[p]] = @ - 1]
        /\ mmgetter' = [mmgetter EXCEPT ![mmindex[p]] = Cleared(row, mutex_type[p])]
        /\ Goto(p, "idle")
        /\ UNCHANGED <<owner, mutex_type, mmindex, inside, logged>>

UnlockClear(p) ==
    LET row == mmgetter[mmindex[p]]
    IN  /\ pc[p] = "ul_clear"
        /\ mutex_lock_count' = [mutex_lock_count EXCEPT ![mutex_type[p]] = @ - 1]
        /\ mmgetter' = [mmgetter EXCEPT ![mmindex[p]] = Cleared(row, mutex_type[p])]
        /\ Complain(p, If(UnlockedOutOfOrder(row, mutex_type[p]), "unlock_order"))
        /\ ReturnReleasing(p)
        /\ UNCHANGED <<mutex_type, mmindex, inside>>

----------------------------------------------------------------------------
(* The environment *)

\* A signal ends p wherever it is: what it owns stays locked and recorded.
Kill(p) ==
    /\ p \in MayDie
    /\ pc[p] # "dead"
    /\ Goto(p, "dead")
    /\ inside' = [inside EXCEPT ![p] = {}]
    /\ UNCHANGED <<owner, mutex_lock_count, mmgetter, mutex_type, mmindex, logged>>

\* What a thread does inside a call, once it is made.
Step(p) ==
    \/ RawTake(p) \/ TakeGuard(p)
    \/ LockNoGetter(p) \/ LockCheck(p) \/ TakeMutex(p) \/ LockRecord(p)
    \/ UnlockStranger(p) \/ UnlockRaw(p) \/ UnlockClear(p)

Call(p) ==
    \/ RefuseType(p)
    \/ \E t \in LockType : CallLock(p, t) \/ CallUnlock(p, t)

Next ==
    /\ UNCHANGED g_beforelock
    /\ \E p \in Thread : Step(p) \/ Call(p) \/ Kill(p)

Spec == Init /\ [][Next]_vars

----------------------------------------------------------------------------
(* What should hold *)

\* The thread p is blocked on: only a pthread_mutex_lock on a lockable type
\* blocks for as long as another caller pleases.
Blocks(p) == IF pc[p] = "lk_wait" THEN owner[mutex_type[p]] ELSE NoThread

\* A ring of threads each blocked on the next: none of them will ever run.
Ring(S) == S # {} /\ {Blocks(q) : q \in S} = S

\* Two callers are never both between a lock of a type that returned and their
\* unlock of it.  For callers that pair their calls and a row for each of them.
MutualExclusion ==
    \A p, q \in Thread : p # q => inside[p] \cap inside[q] = {}

\* A caller inside a type owns its pthread mutex, unless the table was full and
\* it was refused a row: lines 447-457 return to it all the same.
InsideOwns ==
    \A p \in Thread : Registered(p) => \A t \in inside[p] : owner[t] = p

\* The table and the pthread mutexes agree: a row records a type exactly if a
\* thread of that row owns it, except while an acquisition is not yet recorded
\* or a release not yet cleared; mutex_lock_count counts the recording rows.
TableTellsOwners ==
    /\ \A i \in Getter : \A t \in Held(mmgetter[i]) :
           \E p \in Thread : /\ mmgetter[i].id = Key[p]
                             /\ owner[t] = p \/ (pc[p] = "ul_clear" /\ mutex_type[p] = t)
    /\ \A t \in LockType : \A p \in Thread :
           owner[t] = p => \/ pc[p] \in {"lk_back", "lk_record"} /\ mutex_type[p] = t
                           \/ \E i \in RowsOf(p) : t \in Held(mmgetter[i])
    /\ \A t \in LockType :
           mutex_lock_count[t] = Cardinality({i \in Getter : t \in Held(mmgetter[i])})

\* A full table costs exclusion only to those it refuses: when two callers are
\* inside the same type, every row is taken and one of the two has none.  Refused
\* callers go in and out of it without its mutex and unlock it when they leave,
\* between the acquisitions of the others.
OnlyRefusedIntrude ==
    \A p, q \in Thread :
        p # q /\ inside[p] \cap inside[q] # {} =>
            /\ \A i \in Getter : mmgetter[i].is_used
            /\ ~Registered(p) \/ ~Registered(q)

\* A row says that its thread waits for a type exactly from the publication of
\* the request to the record of the acquisition, whatever other callers do and
\* whoever dies; the row of a dead thread says what it said when it died.
RowsShowWaits ==
    \A p \in {q \in Thread : pc[q] # "dead"} : \A i \in RowsOf(p) :
        IF pc[p] \in {"lk_wait", "lk_back", "lk_record", "spin"}
        THEN mmgetter[i].is_waited /\ mmgetter[i].wait_mutex_type = mutex_type[p]
        ELSE ~mmgetter[i].is_waited /\ mmgetter[i].wait_mutex_type = 0

\* isDeadLock misses none: in every ring of blocked callers one was told.
RingReported ==
    \A S \in SUBSET Thread :
        Ring(S) => \E p \in S : "deadlock" \in logged[p]

\* BEFORELOCK is held only by a thread in a stretch that is run under it, or
\* killed in one: no path of a call keeps it across a wait or a return.
GuardNotKept ==
    \A p \in Thread : owner[BEFORELOCK] = p => pc[p] \in UnderGuard \cup {"dead"}

\* A mutex whose owner was killed is never handed to another caller, who would
\* find the data it protects half written.
AbandonedStaysLocked ==
    [][\A t \in LockType :
          owner[t] # NoThread /\ pc[owner[t]] = "dead" => owner'[t] = owner[t]]_vars

----------------------------------------------------------------------------
(* What the source says and the code does not do *)

\* "Went round all of them and there was no loop" (101): the walk of isDeadLock,
\* run under BEFORELOCK, comes to an end.
CheckReturns == \A p \in Thread : pc[p] # "spin"

\* "Unlocks a resource that it has not locked" (609) is refused: only its owner
\* frees a mutex.
UnlockOnlyOwn ==
    [][\A t \in LockType :
          owner[t] # NoThread /\ owner'[t] = NoThread
              => pc[owner[t]] = "ul_raw" /\ mutex_type[owner[t]] = t]_vars

\* "No other process has locked it, so lock and be done", "the order of locking
\* is wrong" (483-493): when another row is in use and none of the others holds the
\* type, the comparison at 472 should leave bbool at MYMUTEX_NO, and a caller whose
\* row is already out of order be sent back.
OutOfOrderRefused ==
    [][\A p \in Thread :
          /\ pc[p] = "lk_check" /\ Registered(p)
          /\ ~isLockJyunbanOk(Jyunban, mmgetter[LockRow(p)])
          /\ \E i \in Getter \ {LockRow(p)} : mmgetter[i].is_used
          /\ \A i \in Getter \ {LockRow(p)} : mutex_type[p] \notin Held(mmgetter[i])
          => pc'[p] # "lk_wait"]_vars

=============================================================================
