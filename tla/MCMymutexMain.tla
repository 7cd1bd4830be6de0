--------------------------- MODULE MCMymutexMain ---------------------------
(* Texts of calls for TLC.                                                 *)
EXTENDS MymutexMain, TLC

CONSTANTS parent, child

OwnKey == [p \in Thread |-> p]
MainJyunban == [i \in Slot |-> IF i \in LockType THEN i ELSE 0]

Lock(t) == [op |-> "lock", on |-> t]
Unlock(t) == [op |-> "unlock", on |-> t]
Mylog == [op |-> "mylog", on |-> 1]

\* main(): ACCOUNT is 1, DBQUE is 2.
MainText ==
    parent :> <<Lock(1), Lock(2), Unlock(2), Unlock(1), [op |-> "kill", on |-> child],
                [op |-> "wait", on |-> child], [op |-> "release", on |-> parent],
                [op |-> "releaselog", on |-> parent]>>
    @@ child :> <<Mylog, Mylog, Mylog, Lock(2), Lock(1), Unlock(1), Unlock(2)>>

\* The parent locks against the order and unlocks in the order in which it locked:
\* it is blamed for its second lock and its first unlock, while the child is about.
BlamedText ==
    parent :> <<Lock(2), Lock(1), Unlock(2), Unlock(1)>>
    @@ child :> <<Lock(2), Unlock(2)>>

\* Both keep to the order; the parent fills the gap that its first unlock leaves
\* in its row.
OrderedText ==
    parent :> <<Lock(1), Lock(2), Unlock(2), Lock(3), Unlock(3), Unlock(1)>>
    @@ child :> <<Lock(2), Unlock(2)>>

MainTexts == {MainText, BlamedText, OrderedText}

\* All of them release as main() does, and one of them keeps to the order.
ASSUME TextsWait == \A x \in Texts : WaitsForAll(x)
ASSUME TextsInOrder == OrderedTexts = {OrderedText}

=============================================================================
