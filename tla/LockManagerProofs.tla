------------------------- MODULE LockManagerProofs -------------------------
(***************************************************************************)
(* Proofs about LockManager, for any set of threads and locks.             *)
(***************************************************************************)
EXTENDS LockManager, TLAPS

\* One step of the manager keeps the types of its three variables.
LEMMA TypeStep ==
  ASSUME TypeOK, [Next]_vars
  PROVE  TypeOK'
<1>1. CASE UNCHANGED vars
  BY <1>1 DEF vars, TypeOK
<1>2. ASSUME NEW p \in Thread, Grant(p)
      PROVE  TypeOK'
  BY <1>2 DEF TypeOK, Grant
<1>3. ASSUME NEW p \in Thread, NEW t \in LockType, Request(p, t)
      PROVE  TypeOK'
  <2>1. want' = [want EXCEPT ![p] = t] /\ holder' = holder
    BY <1>3 DEF Request
  <2>2. alarm' \in {alarm, alarm \cup {p}}
    BY <1>3 DEF Request
  <2> QED
    BY <2>1, <2>2 DEF TypeOK
<1>4. ASSUME NEW p \in Thread, NEW t \in LockType, Release(p, t)
      PROVE  TypeOK'
  BY <1>4 DEF TypeOK, Release
<1> QED
  BY <1>1, <1>2, <1>3, <1>4 DEF Next

\* The types of the three variables are kept by every request, grant, release.
THEOREM TypeCorrect == Spec => []TypeOK
<1>1. Init => TypeOK
  BY DEF Init, TypeOK
<1>2. TypeOK /\ [Next]_vars => TypeOK'
  BY TypeStep
<1> QED
  BY <1>1, <1>2, PTL DEF Spec

----------------------------------------------------------------------------

\* No member of a ring is granted anything and no member releases: what blocks
\* the members is the same after any step as before it.
LEMMA RingKept ==
  ASSUME ManagerAssumption, TypeOK, [Next]_vars, NEW S \in SUBSET Thread, Ring(S)
  PROVE  /\ \A p \in S : want'[p] = want[p] /\ holder'[want[p]] = holder[want[p]]
         /\ Ring(S)'
<1> USE DEF ManagerAssumption
<1>1. \A p \in S : want[p] \in LockType /\ holder[want[p]] \in S
  BY DEF TypeOK, Ring, RingIn, BlockedBy
<1>2. \A p \in S : want'[p] = want[p] /\ holder'[want[p]] = holder[want[p]]
  <2>1. CASE UNCHANGED vars
    BY <2>1 DEF vars
  <2>2. ASSUME NEW q \in Thread, Grant(q)
        PROVE  \A p \in S : want'[p] = want[p] /\ holder'[want[p]] = holder[want[p]]
    <3>1. q \notin S
      BY <1>1, <2>2 DEF Grant
    <3>2. \A p \in S : want[p] # want[q]
      BY <1>1, <2>2 DEF Grant
    <3> QED
      BY <1>1, <2>2, <3>1, <3>2 DEF Grant, TypeOK
  <2>3. ASSUME NEW q \in Thread, NEW t \in LockType, Request(q, t)
        PROVE  \A p \in S : want'[p] = want[p] /\ holder'[want[p]] = holder[want[p]]
    BY <1>1, <2>3 DEF Request, TypeOK
  <2>4. ASSUME NEW q \in Thread, NEW t \in LockType, Release(q, t)
        PROVE  \A p \in S : want'[p] = want[p] /\ holder'[want[p]] = holder[want[p]]
    <3>1. q \notin S
      BY <1>1, <2>4 DEF Release
    <3> QED
      BY <1>1, <2>4, <3>1 DEF Release, TypeOK
  <2> QED
    BY <2>1, <2>2, <2>3, <2>4 DEF Next
<1>3. \A p \in S : BlockedBy(want, p)' = BlockedBy(want, p)
  BY <1>1, <1>2 DEF BlockedBy
<1> QED
  BY <1>2, <1>3 DEF Ring, RingIn

\* A deadlock is never left: every ring of blocked threads stays one.
THEOREM DeadlocksAreForever ==
  ASSUME ManagerAssumption
  PROVE  Spec => RingsStay
<1>1. TypeOK /\ [Next]_vars => [\A S \in SUBSET Thread : Ring(S) => Ring(S)']_vars
  <2> SUFFICES ASSUME TypeOK, [Next]_vars, NEW S \in SUBSET Thread, Ring(S)
               PROVE  Ring(S)'
    OBVIOUS
  <2> QED
    BY RingKept
<1> QED
  BY <1>1, TypeCorrect, PTL DEF Spec, RingsStay

----------------------------------------------------------------------------

\* A ring that a step brings about was brought about by the request of one of
\* its members, who is told.
LEMMA NewRingTold ==
  ASSUME ManagerAssumption, TypeOK, [Next]_vars,
         NEW S \in SUBSET Thread, Ring(S)', ~Ring(S)
  PROVE  S \cap alarm' # {}
<1> USE DEF ManagerAssumption
<1>1. \A p \in S : want'[p] \in LockType /\ holder'[want'[p]] \in S
  <2>1. TypeOK'
    BY TypeStep
  <2> QED
    BY <2>1 DEF TypeOK, Ring, RingIn, BlockedBy
<1>2. CASE UNCHANGED vars
  BY <1>2 DEF vars, Ring, RingIn, BlockedBy
<1>3. ASSUME NEW q \in Thread, Grant(q)
      PROVE  FALSE
  <2>1. q \notin S
    BY <1>1, <1>3 DEF Grant, TypeOK
  <2>2. \A p \in S : want'[p] = want[p] /\ want[p] # want[q]
    BY <1>1, <1>3, <2>1 DEF Grant, TypeOK
  <2>3. \A p \in S : BlockedBy(want, p)' = BlockedBy(want, p)
    BY <1>1, <1>3, <2>2 DEF BlockedBy, Grant, TypeOK
  <2> QED
    BY <2>3 DEF Ring, RingIn
<1>4. ASSUME NEW q \in Thread, NEW t \in LockType, Release(q, t)
      PROVE  FALSE
  <2>1. \A p \in S : want'[p] = want[p] /\ want[p] # t
    BY <1>1, <1>4 DEF Release, TypeOK
  <2>2. \A p \in S : BlockedBy(want, p)' = BlockedBy(want, p)
    BY <1>1, <1>4, <2>1 DEF BlockedBy, Release, TypeOK
  <2> QED
    BY <2>2 DEF Ring, RingIn
<1>5. ASSUME NEW q \in Thread, NEW t \in LockType, Request(q, t)
      PROVE  S \cap alarm' # {}
  <2>1. holder' = holder
    BY <1>5 DEF Request
  <2>2. want' = [want EXCEPT ![q] = t]
    BY <1>5 DEF Request
  <2>3. RingIn([want EXCEPT ![q] = t], S)
    BY <2>1, <2>2 DEF Ring, RingIn, BlockedBy
  <2>4. q \in S
    <3> SUFFICES ASSUME q \notin S
                 PROVE  FALSE
      OBVIOUS
    <3>1. \A p \in S : BlockedBy(want, p)' = BlockedBy(want, p)
      BY <2>1, <2>2 DEF BlockedBy, TypeOK
    <3> QED
      BY <3>1 DEF Ring, RingIn
  <2>5. alarm' = alarm \cup {q}
    BY <1>5, <2>3, <2>4 DEF Request
  <2> QED
    BY <2>4, <2>5
<1> QED
  BY <1>2, <1>3, <1>4, <1>5 DEF Next

\* Whoever is told when it asks closes a ring with that very request.
LEMMA ToldInRing ==
  ASSUME TypeOK, [Next]_vars, NEW p \in alarm' \ alarm
  PROVE  \E S \in SUBSET Thread : p \in S /\ Ring(S)'
<1>1. PICK q \in Thread, t \in LockType : Request(q, t) /\ alarm' # alarm
  BY DEF Next, vars, Grant, Release
<1>2. p = q
  BY <1>1 DEF Request
<1>3. PICK S \in SUBSET Thread : q \in S /\ RingIn([want EXCEPT ![q] = t], S)
  BY <1>1 DEF Request
<1>4. holder' = holder /\ want' = [want EXCEPT ![q] = t]
  BY <1>1 DEF Request
<1>5. Ring(S)'
  BY <1>3, <1>4 DEF Ring, RingIn, BlockedBy
<1> QED
  BY <1>2, <1>3, <1>5

\* The set of the told never shrinks while its members are in their rings.
LEMMA AlarmGrows ==
  ASSUME [Next]_vars
  PROVE  alarm \subseteq alarm'
BY DEF Next, vars, Grant, Request, Release

\* One step of the manager keeps the alarms and the rings together.
LEMMA AlarmsStep ==
  ASSUME ManagerAssumption, TypeOK, AlarmsAreRings, [Next]_vars
  PROVE  AlarmsAreRings'
<1>1. ASSUME NEW p \in alarm'
      PROVE  \E S \in SUBSET Thread : p \in S /\ Ring(S)'
  <2>1. CASE p \in alarm
    <3>1. PICK S \in SUBSET Thread : p \in S /\ Ring(S)
      BY <2>1 DEF AlarmsAreRings
    <3>2. Ring(S)'
      BY <3>1, RingKept
    <3> QED
      BY <3>1, <3>2
  <2>2. CASE p \notin alarm
    BY <2>2, ToldInRing
  <2> QED
    BY <2>1, <2>2
<1>2. ASSUME NEW S \in SUBSET Thread, Ring(S)'
      PROVE  S \cap alarm' # {}
  <2>1. CASE Ring(S)
    BY <2>1, AlarmGrows DEF AlarmsAreRings
  <2>2. CASE ~Ring(S)
    BY <1>2, <2>2, NewRingTold
  <2> QED
    BY <2>1, <2>2
<1> QED
  BY <1>1, <1>2 DEF AlarmsAreRings

\* No false alarm and none missed, however many threads and locks there are.
THEOREM AlarmsCorrect ==
  ASSUME ManagerAssumption
  PROVE  Spec => []AlarmsAreRings
<1>1. Init => AlarmsAreRings
  BY DEF ManagerAssumption, Init, AlarmsAreRings, Ring, RingIn, BlockedBy
<1>2. TypeOK /\ AlarmsAreRings /\ [Next]_vars => AlarmsAreRings'
  BY AlarmsStep
<1> QED
  BY <1>1, <1>2, TypeCorrect, PTL DEF Spec

=============================================================================
