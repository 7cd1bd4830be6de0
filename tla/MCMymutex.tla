----------------------------- MODULE MCMymutex -----------------------------
(* Instances of Mymutex for TLC. *)
EXTENDS MymutexRefinement, TLC

CONSTANTS t1, t2, t3, t4

\* Every thread has a (pid, tid) of its own.
OwnKey == [p \in Thread |-> p]

\* The order main() configures: entry i of the order is type i.
MainJyunban == [i \in Slot |-> IF i \in LockType THEN i ELSE 0]

ThreadSymmetry == Permutations(Thread)

=============================================================================
