---------------------------- MODULE LockManager ----------------------------
(***************************************************************************)
(* What common/mymutex.c promises its callers: exclusive locks with        *)
(* blocking requests, and an alarm for the request that closes a ring of   *)
(* blocked callers, which is then let into the deadlock all the same       *)
(* (comment at 514-516).  No table, no BEFORELOCK, no rows.                *)
(***************************************************************************)
EXTENDS Integers

CONSTANTS Thread, LockType, NoThread

\* What the two marks must not be; a hypothesis of the theorems.
ManagerAssumption == NoThread \notin Thread /\ 0 \notin LockType

VARIABLES
    holder,     \* per lock: the thread that has it, or NoThread
    want,       \* per thread: the lock it is blocked on, or 0
    alarm       \* the blocked threads whose request closed a ring

vars == <<holder, want, alarm>>

TypeOK ==
    /\ holder \in [LockType -> Thread \cup {NoThread}]
    /\ want \in [Thread -> LockType \cup {0}]
    /\ alarm \in SUBSET Thread

Init ==
    /\ holder = [t \in LockType |-> NoThread]
    /\ want = [p \in Thread |-> 0]
    /\ alarm = {}

\* Whom p is blocked by, when it wants w.
BlockedBy(w, p) == IF w[p] = 0 THEN NoThread ELSE holder[w[p]]

\* A ring of threads, each blocked by the next, when they want w.
RingIn(w, S) ==
    /\ S # {}
    /\ \A p \in S : BlockedBy(w, p) \in S
    /\ \A p \in S : \E q \in S : BlockedBy(w, q) = p

Ring(S) == RingIn(want, S)

\* A request is told at once whether it closes a ring, and waits either way.
Request(p, t) ==
    LET wanted == [want EXCEPT ![p] = t]
    IN  /\ want[p] = 0
        /\ want' = wanted
        /\ alarm' = IF \E S \in SUBSET Thread : p \in S /\ RingIn(wanted, S)
                    THEN alarm \cup {p} ELSE alarm
        /\ UNCHANGED holder

Grant(p) ==
    /\ want[p] # 0
    /\ holder[want[p]] = NoThread
    /\ holder' = [holder EXCEPT ![want[p]] = p]
    /\ want' = [want EXCEPT ![p] = 0]
    /\ UNCHANGED alarm

Release(p, t) ==
    /\ want[p] = 0
    /\ holder[t] = p
    /\ holder' = [holder EXCEPT ![t] = NoThread]
    /\ UNCHANGED <<want, alarm>>

Next ==
    \E p \in Thread :
        \/ Grant(p)
        \/ \E t \in LockType : Request(p, t) \/ Release(p, t)

Spec == Init /\ [][Next]_vars

----------------------------------------------------------------------------

\* The comment at 514-516, "where it is going to deadlock that is logged": every
\* ring has a member that was told, and nobody outside a ring was told.
AlarmsAreRings ==
    /\ \A p \in alarm : \E S \in SUBSET Thread : p \in S /\ Ring(S)
    /\ \A S \in SUBSET Thread : Ring(S) => S \cap alarm # {}

\* "Lock and let it deadlock": a ring is never left, whatever the others do.
RingsStay == [][\A S \in SUBSET Thread : Ring(S) => Ring(S)']_vars

=============================================================================
