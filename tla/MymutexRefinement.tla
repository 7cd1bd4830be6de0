------------------------- MODULE MymutexRefinement -------------------------
(***************************************************************************)
(* mymutex.c implements LockManager.  A request happens when mymutex_lock  *)
(* gives BEFORELOCK back after its checks, a grant at the blocking         *)
(* pthread_mutex_lock, a release at pthread_mutex_unlock; the guard, the   *)
(* table and the recording of the acquisition are steps of their own that  *)
(* the abstract state does not see.                                        *)
(***************************************************************************)
EXTENDS Mymutex

\* The type p is blocked on, from the end of its checks to its acquisition.
Wanted == [p \in Thread |-> IF pc[p] = "lk_wait" THEN mutex_type[p] ELSE 0]

Told == {p \in Thread : pc[p] = "lk_wait" /\ "deadlock" \in logged[p]}

Manager == INSTANCE LockManager
    WITH holder <- [t \in LockType |-> owner[t]], want <- Wanted, alarm <- Told

\* Callers that pair their calls, each with a row, see the lock manager: every
\* step of a call is a step of it or none, and the alarm of isDeadLock is raised
\* in the very step whose request closes a ring (357-545, 547-630).
ImplementsLockManager == Manager!Spec

\* isDeadLock raises no false alarm and misses no deadlock: who was told is in a
\* ring of blocked callers, and every such ring has a member that was told.
AlarmsAreRings == Manager!AlarmsAreRings

\* A deadlock is told and then left alone (514-516): no unlock, by whomever, no
\* acquisition and no further check ever takes a caller out of its ring.
RingsStay == Manager!RingsStay

=============================================================================
