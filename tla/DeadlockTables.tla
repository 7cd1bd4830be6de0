--------------------------- MODULE DeadlockTables ---------------------------
(***************************************************************************)
(* isDeadLock (mymutex.c:29-131) over every table of getters that the lock *)
(* operations can build: rows are taken in order and never given back, a   *)
(* type is recorded by at most one row, a row waits for at most one type.  *)
(* The walk is compared with the rings of the table, rings that were there *)
(* before included.                                                        *)
(***************************************************************************)
EXTENDS MutexChecks

VARIABLES mmgetter, mmindex, verdict

vars == <<mmgetter, mmindex, verdict>>

\* A row that holds the types assigned to it (0 for an unused row's wait).
RowOf(recorder, wait, used, i) ==
    IF i \notin used THEN EmptyRow
    ELSE [ EmptyRow EXCEPT
             !.id = CHOOSE x \in Ident : TRUE,
             !.is_used = TRUE,
             !.get_mutex_type = [m \in Slot |-> IF m \in LockType /\ recorder[m] = i THEN m ELSE 0],
             !.wait_mutex_type = wait[i],
             !.is_waited = wait[i] # 0 ]

\* The call of row mmindex has just entered its request.
Init ==
    \E used \in {0 .. n - 1 : n \in 0 .. MAX_MUTEX_GETTER_NUM} :
    \E recorder \in [LockType -> used \cup {NoGetter}] :
    \E wait \in [used -> LockType \cup {0}] :
        /\ mmgetter = [i \in Getter |-> RowOf(recorder, wait, used, i)]
        /\ mmindex \in {i \in used : wait[i] # 0}
        /\ verdict = "none"

Check ==
    /\ verdict = "none"
    /\ verdict' = isDeadLock(mmgetter, mmindex)
    /\ UNCHANGED <<mmgetter, mmindex>>

Next == Check

Spec == Init /\ [][Next]_vars

----------------------------------------------------------------------------

\* The row that row i waits for.
NextRow(i) == IF mmgetter[i].is_waited THEN HolderOf(mmgetter, mmgetter[i].wait_mutex_type)
              ELSE NoGetter

Ring(S) == S # {} /\ {NextRow(i) : i \in S} = S

\* Rows one comes to from row i, and the used rows one does not.
Leads(i, S) == i \in S /\ \A j \in S : NextRow(j) \in S \cup {NoGetter}
MeetsRing(i) == \A S \in SUBSET Getter : Leads(i, S) => \E R \in SUBSET S : Ring(R)
Aside(i) == \E S \in SUBSET Getter : Leads(i, S) /\ \E k \in Getter \ S : mmgetter[k].is_used

\* A deadlock is reported exactly for a request that is part of a ring, whatever
\* the order of the rows and whatever other rings the table holds.
YesOnRing ==
    verdict # "none" =>
        (verdict = "YES" <=> \E S \in SUBSET Getter : mmindex \in S /\ Ring(S))

\* The loop never returns exactly when the request leads into a ring it is not
\* part of while some row in use lies aside of its way: the test of 92-98 asks
\* whether all rows in use were counted, not whether the walk came round.
LoopsBesideRing ==
    verdict # "none" =>
        (verdict = "LOOPS" <=>
            /\ MeetsRing(mmindex)
            /\ ~\E S \in SUBSET Getter : mmindex \in S /\ Ring(S)
            /\ Aside(mmindex))

=============================================================================
