------------------------ MODULE DeadlockTablesProofs ------------------------
(***************************************************************************)
(* Proofs about DeadlockTables, for every number of rows and types.        *)
(***************************************************************************)
EXTENDS DeadlockTables, MutexChecksProofs

\* The row whose request is checked waits.
Asked == mmindex \in Getter /\ mmgetter[mmindex].is_waited

LEMMA RowsAsked == Init => Asked
<1> SUFFICES ASSUME Init
             PROVE  Asked
  OBVIOUS
<1>1. PICK n \in 0 .. MAX_MUTEX_GETTER_NUM :
         \E recorder \in [LockType -> (0 .. n - 1) \cup {NoGetter}] :
         \E wait \in [0 .. n - 1 -> LockType \cup {0}] :
            /\ mmgetter = [i \in Getter |-> RowOf(recorder, wait, 0 .. n - 1, i)]
            /\ mmindex \in {i \in 0 .. n - 1 : wait[i] # 0}
  BY DEF Init
<1>2. PICK recorder \in [LockType -> (0 .. n - 1) \cup {NoGetter}],
           wait \in [0 .. n - 1 -> LockType \cup {0}] :
            /\ mmgetter = [i \in Getter |-> RowOf(recorder, wait, 0 .. n - 1, i)]
            /\ mmindex \in {i \in 0 .. n - 1 : wait[i] # 0}
  BY <1>1
<1>3. mmindex \in Getter
  BY <1>2, SizeAssumption DEF Getter
<1>4. mmgetter[mmindex] = RowOf(recorder, wait, 0 .. n - 1, mmindex)
  BY <1>2, <1>3
<1>5. RowOf(recorder, wait, 0 .. n - 1, mmindex).is_waited
  BY <1>2 DEF RowOf, EmptyRow
<1> QED
  BY <1>3, <1>4, <1>5 DEF Asked

\* The verdict is that of the table.
Judged == verdict # "none" => verdict = isDeadLock(mmgetter, mmindex)

LEMMA JudgedAlways == Spec => [](Asked /\ Judged)
<1>1. Init => Asked /\ Judged
  BY RowsAsked DEF Init, Judged
<1>2. Asked /\ Judged /\ [Next]_vars => Asked' /\ Judged'
  BY DEF Next, Check, Asked, Judged, vars
<1> QED
  BY <1>1, <1>2, PTL DEF Spec

\* The rings of DeadlockTables are those of its table.
LEMMA SameRings == \A S \in SUBSET Getter : Ring(S) <=> RingOf(mmgetter, S)
BY DEF Ring, RingOf, NextRow, NextOf

\* isDeadLock (29-131) says yes exactly when the request closes a ring, for a
\* table of any size, whatever the order of the rows and whatever other rings.
THEOREM YesExactlyOnRing == Spec => []YesOnRing
<1>1. Asked /\ Judged => YesOnRing
  BY YesIsRing, SameRings DEF Asked, Judged, YesOnRing
<1> QED
  BY <1>1, JudgedAlways, PTL

\* And does not return exactly when the request leads into a ring it is not part
\* of while a row in use lies aside: the test of 92-98 is not one of coming round.
THEOREM LoopsExactlyBeside == Spec => []LoopsBesideRing
<1>1. Asked /\ Judged => LoopsBesideRing
  <2> SUFFICES ASSUME Asked, Judged, verdict # "none"
               PROVE  verdict = "LOOPS" <=>
                        /\ MeetsRing(mmindex)
                        /\ ~\E S \in SUBSET Getter : mmindex \in S /\ Ring(S)
                        /\ Aside(mmindex)
    BY DEF LoopsBesideRing
  <2>1. \A S \in SUBSET Getter : Leads(mmindex, S) <=> LeadsOf(mmgetter, mmindex, S)
    BY DEF Leads, LeadsOf, NextRow, NextOf
  <2>2. MeetsRing(mmindex) <=>
          \A S \in SUBSET Getter : LeadsOf(mmgetter, mmindex, S) =>
              \E R \in SUBSET S : RingOf(mmgetter, R)
    BY <2>1, SameRings DEF MeetsRing
  <2>3. Aside(mmindex) <=> \E S \in SUBSET Getter :
            LeadsOf(mmgetter, mmindex, S) /\ \E k \in Getter \ S : mmgetter[k].is_used
    BY <2>1 DEF Aside
  <2>4. verdict = isDeadLock(mmgetter, mmindex)
    BY DEF Judged
  <2> QED
    BY <2>2, <2>3, <2>4, SameRings, LoopsIsBeside DEF Asked
<1> QED
  BY <1>1, JudgedAlways, PTL

=============================================================================
