------------------------- MODULE MutexChecksProofs -------------------------
(***************************************************************************)
(* Proofs about MutexChecks: what isDeadLock answers for any table of      *)
(* getters, of any size, whatever its rows record: yes exactly on a ring,  *)
(* and no return exactly beside one.                                       *)
(***************************************************************************)
EXTENDS MutexChecks, TLAPS, FiniteSetTheorems, WellFoundedInduction

\* A set of natural numbers has a least member.
LEMMA LeastOfNat ==
  ASSUME NEW S \in SUBSET Nat, S # {}
  PROVE  \E x \in S : \A y \in S : x <= y
<1>1. IsWellFoundedOn(OpToRel(<, Nat), Nat)
  BY NatLessThanWellFounded
<1>2. PICK x \in S : \A y \in S : ~(<<y, x>> \in OpToRel(<, Nat))
  BY <1>1, WFMin
<1>3. \A y \in S : ~(y < x)
  BY <1>2 DEF OpToRel
<1> QED
  BY <1>3

\* It is what Min picks.
LEMMA LeastIsMin ==
  ASSUME NEW S \in SUBSET Nat, S # {}
  PROVE  Min(S) \in S /\ \A y \in S : Min(S) <= y
BY LeastOfNat DEF Min

\* A bounded one has a greatest member.
LEMMA GreatestOfNat ==
  ASSUME NEW S \in SUBSET Nat, NEW n \in Nat, S # {}, \A y \in S : y <= n
  PROVE  \E x \in S : \A y \in S : x >= y
<1> DEFINE T == {n - y : y \in S}
<1>1. \A y \in S : n - y \in Nat
  OBVIOUS
<1>2. T \in SUBSET Nat /\ T # {}
  BY <1>1
<1>3. PICK z \in T : \A y \in T : z <= y
  BY <1>2, LeastOfNat
<1>4. PICK x \in S : z = n - x
  BY <1>3
<1>5. \A y \in S : n - x <= n - y
  BY <1>3, <1>4
<1> QED
  BY <1>4, <1>5

\* Min and Max of a set of rows are rows of the set.
LEMMA MinMaxOfRows ==
  ASSUME NEW S \in SUBSET Getter, S # {}
  PROVE  Min(S) \in S /\ Max(S) \in S
<1>1. S \in SUBSET Nat /\ \A y \in S : y <= MAX_MUTEX_GETTER_NUM
  BY SizeAssumption DEF Getter
<1>2. \E x \in S : \A y \in S : x <= y
  BY <1>1, LeastOfNat
<1>3. \E x \in S : \A y \in S : x >= y
  BY <1>1, GreatestOfNat, SizeAssumption
<1> QED
  BY <1>2, <1>3 DEF Min, Max

\* So are those of a set of slots.
LEMMA MinOfSlots ==
  ASSUME NEW S \in SUBSET Slot, S # {}
  PROVE  Min(S) \in S
<1>1. S \in SUBSET Nat
  BY SizeAssumption DEF Slot
<1> QED
  BY <1>1, LeastOfNat DEF Min

----------------------------------------------------------------------------
(* The walk *)

LEMMA HolderIsRow ==
  ASSUME NEW tbl, NEW t
  PROVE  HolderOf(tbl, t) \in {k \in Getter : tbl[k].is_used} \cup {NoGetter}
<1> DEFINE rows == {k \in Getter : tbl[k].is_used /\ t \in Held(tbl[k])}
<1>1. rows \in SUBSET Nat
  BY SizeAssumption DEF Getter
<1>2. rows # {} => Min(rows) \in rows
  BY <1>1, LeastIsMin
<1>3. HolderOf(tbl, t) = IF rows = {} THEN NoGetter ELSE Min(rows)
  BY DEF HolderOf
<1> QED
  BY <1>2, <1>3

LEMMA OnwardIsRow ==
  ASSUME NEW tbl, NEW row \in Getter \cup {NoGetter}
  PROVE  Onward(tbl)[row] \in {k \in Getter : tbl[k].is_used} \cup {NoGetter}
BY HolderIsRow DEF Onward

IsWalk(f, tbl, me, N) ==
    f = [n \in 0 .. N |-> Onward(tbl)[IF n = 0 THEN me ELSE f[n - 1]]]

\* The recursion of the walk has a solution on every initial stretch.
LEMMA WalkStretch ==
  ASSUME NEW tbl, NEW me, NEW N \in Nat
  PROVE  \E f : IsWalk(f, tbl, me, N)
<1> DEFINE Good(M) == \E f : IsWalk(f, tbl, me, M)
           Bad == {M \in Nat : ~Good(M)}
<1> SUFFICES ASSUME Bad # {}
             PROVE  FALSE
  BY DEF Good
<1>1. PICK M \in Bad : \A K \in Bad : M <= K
  BY LeastIsMin
<1>2. Good(0)
  <2> DEFINE f == [n \in 0 .. 0 |-> Onward(tbl)[me]]
  <2>1. f = [n \in 0 .. 0 |-> Onward(tbl)[IF n = 0 THEN me ELSE f[n - 1]]]
    OBVIOUS
  <2> QED
    BY <2>1 DEF IsWalk
<1>3. M # 0 /\ M - 1 \in Nat /\ Good(M - 1)
  <2> HIDE DEF Good
  <2>1. M \in Nat /\ ~Good(M)
    OBVIOUS
  <2>2. M # 0
    BY <1>2, <2>1
  <2>3. M - 1 \in Nat /\ ~(M <= M - 1)
    BY <2>1, <2>2
  <2> QED
    BY <1>1, <2>2, <2>3
<1>4. PICK f : IsWalk(f, tbl, me, M - 1)
  BY <1>3
<1> DEFINE g == [n \in 0 .. M |-> IF n = M THEN Onward(tbl)[f[M - 1]] ELSE f[n]]
<1>5. \A n \in 0 .. M : g[n] = IF n = M THEN Onward(tbl)[f[M - 1]] ELSE f[n]
  OBVIOUS
<1>6. \A n \in 0 .. M - 1 : f[n] = Onward(tbl)[IF n = 0 THEN me ELSE f[n - 1]]
  BY <1>4 DEF IsWalk
<1>7. DOMAIN g = 0 .. M /\ g = [n \in 0 .. M |-> g[n]]
  OBVIOUS
<1> HIDE DEF g
<1>8. \A n \in 0 .. M : g[n] = Onward(tbl)[IF n = 0 THEN me ELSE g[n - 1]]
  <2> SUFFICES ASSUME NEW n \in 0 .. M
               PROVE  g[n] = Onward(tbl)[IF n = 0 THEN me ELSE g[n - 1]]
    OBVIOUS
  <2>1. CASE n = M
    <3>1. M - 1 \in 0 .. M /\ M - 1 # M
      BY <1>3
    <3>2. g[M - 1] = f[M - 1]
      BY <1>5, <3>1
    <3> QED
      BY <1>3, <1>5, <2>1, <3>2
  <2>2. CASE n # M
    <3>1. n \in 0 .. M - 1 /\ g[n] = f[n]
      BY <1>1, <1>5, <2>2
    <3>2. n # 0 => n - 1 \in 0 .. M /\ n - 1 # M
      BY <1>1
    <3>3. n # 0 => g[n - 1] = f[n - 1]
      BY <1>5, <3>2
    <3> QED
      BY <1>6, <3>1, <3>3
  <2> QED
    BY <2>1, <2>2
<1>9. g = [n \in 0 .. M |-> Onward(tbl)[IF n = 0 THEN me ELSE g[n - 1]]]
  BY <1>7, <1>8
<1>10. IsWalk(g, tbl, me, M)
  BY <1>9 DEF IsWalk
<1> QED
  BY <1>1, <1>10

\* The steps of the walk.
LEMMA WalkSteps ==
  ASSUME NEW tbl, NEW me \in Getter
  PROVE  /\ DOMAIN Walk(tbl, me) = 0 .. MAX_MUTEX_GETTER_NUM
         /\ \A n \in 0 .. MAX_MUTEX_GETTER_NUM :
               /\ Walk(tbl, me)[n] = Onward(tbl)[IF n = 0 THEN me ELSE Walk(tbl, me)[n - 1]]
               /\ Walk(tbl, me)[n] \in {k \in Getter : tbl[k].is_used} \cup {NoGetter}
<1> DEFINE at == Walk(tbl, me)
<1>1. PICK f : IsWalk(f, tbl, me, MAX_MUTEX_GETTER_NUM)
  BY WalkStretch, SizeAssumption
<1>2. at = CHOOSE h : IsWalk(h, tbl, me, MAX_MUTEX_GETTER_NUM)
  BY DEF Walk, IsWalk
<1> HIDE DEF at
<1>3. IsWalk(at, tbl, me, MAX_MUTEX_GETTER_NUM)
  BY <1>1, <1>2
<1> DEFINE Rows == {k \in Getter : tbl[k].is_used} \cup {NoGetter}
           Off == {n \in 0 .. MAX_MUTEX_GETTER_NUM : at[n] \notin Rows}
<1>4. Off = {}
  <2> SUFFICES ASSUME Off # {}
               PROVE  FALSE
    OBVIOUS
  <2>1. PICK n \in Off : \A m \in Off : n <= m
    <3>1. Off \in SUBSET Nat
      OBVIOUS
    <3> HIDE DEF Off
    <3> QED
      BY <3>1, LeastOfNat
  <2>2. at[n] = Onward(tbl)[IF n = 0 THEN me ELSE at[n - 1]]
    BY <1>3 DEF IsWalk
  <2>3. n # 0 => at[n - 1] \in Rows
    <3>1. n # 0 => n - 1 \in 0 .. MAX_MUTEX_GETTER_NUM /\ ~(n <= n - 1)
      BY SizeAssumption
    <3> QED
      BY <2>1, <3>1
  <2>4. (IF n = 0 THEN me ELSE at[n - 1]) \in Getter \cup {NoGetter}
    BY <2>3
  <2>5. at[n] \in Rows
    BY <2>2, <2>4, OnwardIsRow
  <2> QED
    BY <2>5
<1> QED
  BY <1>3, <1>4 DEF at, IsWalk

\* The rows the walk has counted before step n, and whether it returns there.
Way(tbl, me, n) == {me} \cup {Walk(tbl, me)[m] : m \in 0 .. n - 1}
Returns(tbl, me, n) ==
    Decided(tbl, me, [at |-> Walk(tbl, me)[n], counted |-> Way(tbl, me, n)])

Steps == 0 .. MAX_MUTEX_GETTER_NUM

\* The verdict depends on the first step at which the walk returns.
LEMMA Verdicts ==
  ASSUME NEW tbl, NEW me \in Getter
  PROVE  /\ isDeadLock(tbl, me) = "LOOPS" <=> \A n \in Steps : ~Returns(tbl, me, n)
         /\ isDeadLock(tbl, me) = "YES" <=>
               /\ tbl[me].is_waited
               /\ \E n \in Steps : /\ Returns(tbl, me, n) /\ Walk(tbl, me)[n] = me
                                   /\ \A m \in 0 .. n - 1 : ~Returns(tbl, me, m)
<1> DEFINE at == Walk(tbl, me)
           R == {n \in DOMAIN at :
                   Decided(tbl, me, [at |-> at[n],
                                     counted |-> {me} \cup {at[m] : m \in 0 .. n - 1}])}
<1>1. R = {n \in Steps : Returns(tbl, me, n)}
  BY WalkSteps DEF Returns, Way, Steps
<1>2. isDeadLock(tbl, me) = IF R = {} THEN "LOOPS"
                            ELSE IF at[Min(R)] = me /\ tbl[me].is_waited THEN "YES" ELSE "NO"
  BY DEF isDeadLock
<1> HIDE DEF R, at
<1>3. R \in SUBSET Nat
  BY <1>1, SizeAssumption DEF Steps
<1>4. R # {} => Min(R) \in R /\ \A y \in R : Min(R) <= y
  BY <1>3, LeastIsMin
<1>5. ASSUME NEW n \in R
      PROVE  n = Min(R) <=> \A m \in 0 .. n - 1 : m \notin R
  <2>1. Min(R) \in Nat /\ n \in Nat /\ Min(R) <= n /\ Min(R) \in R
    BY <1>3, <1>4
  <2>2. n # Min(R) => Min(R) \in 0 .. n - 1
    BY <2>1
  <2>3. ASSUME NEW m \in 0 .. n - 1, m \in R, n = Min(R)
        PROVE  FALSE
    <3>1. n <= m /\ m < n /\ m \in Nat
      BY <1>4, <2>1, <2>3
    <3> QED
      BY <2>1, <3>1
  <2> QED
    BY <2>1, <2>2, <2>3
<1>6. \A n \in Steps : n \in R <=> Returns(tbl, me, n)
  BY <1>1
<1>7. \A n \in Steps : \A m \in 0 .. n - 1 : m \in Steps
  BY SizeAssumption DEF Steps
<1>8. isDeadLock(tbl, me) = "LOOPS" <=> R = {}
  BY <1>2
<1>9. isDeadLock(tbl, me) = "YES" <=> R # {} /\ at[Min(R)] = me /\ tbl[me].is_waited
  BY <1>2
<1>10. R \subseteq Steps
  BY <1>1
<1>11. R # {} /\ at[Min(R)] = me
         <=> \E n \in Steps : /\ Returns(tbl, me, n) /\ at[n] = me
                              /\ \A m \in 0 .. n - 1 : ~Returns(tbl, me, m)
  <2>1. ASSUME R # {}, at[Min(R)] = me
        PROVE  \E n \in Steps : /\ Returns(tbl, me, n) /\ at[n] = me
                                /\ \A m \in 0 .. n - 1 : ~Returns(tbl, me, m)
    BY <1>4, <1>5, <1>6, <1>7, <1>10, <2>1
  <2>2. ASSUME NEW n \in Steps, Returns(tbl, me, n), at[n] = me,
               \A m \in 0 .. n - 1 : ~Returns(tbl, me, m)
        PROVE  R # {} /\ at[Min(R)] = me
    <3>1. n \in R /\ \A m \in 0 .. n - 1 : m \notin R
      BY <1>6, <1>7, <2>2
    <3>2. n = Min(R)
      BY <1>5, <3>1
    <3> QED
      BY <2>2, <3>1, <3>2
  <2> QED
    BY <2>1, <2>2
<1>12. R = {} <=> \A n \in Steps : ~Returns(tbl, me, n)
  BY <1>1
<1> QED
  BY <1>8, <1>9, <1>11, <1>12 DEF at

----------------------------------------------------------------------------
(* Rings *)

\* The row that row i waits for, and the rings of waiting rows.
NextOf(tbl, i) == IF tbl[i].is_waited THEN HolderOf(tbl, tbl[i].wait_mutex_type) ELSE NoGetter
RingOf(tbl, S) == S # {} /\ {NextOf(tbl, i) : i \in S} = S

\* Where the walk has not returned it has come to another row, which waits, and
\* goes on along the waits.
LEMMA WalkGoesOn ==
  ASSUME NEW tbl, NEW me \in Getter, tbl[me].is_waited,
         NEW n \in Steps, \A m \in 0 .. n - 1 : ~Returns(tbl, me, m)
  PROVE  /\ Walk(tbl, me)[0] = NextOf(tbl, me)
         /\ \A m \in 0 .. n - 1 : /\ Walk(tbl, me)[m] \in Getter \ {me}
                                  /\ tbl[Walk(tbl, me)[m]].is_waited
                                  /\ Walk(tbl, me)[m + 1] = NextOf(tbl, Walk(tbl, me)[m])
<1>1. me # NoGetter /\ 0 \in Steps
  BY SizeAssumption DEF Getter, NoGetter, Steps
<1>2. Walk(tbl, me)[0] = NextOf(tbl, me)
  <2>1. Walk(tbl, me)[0] = Onward(tbl)[me]
    BY <1>1, WalkSteps DEF Steps
  <2> QED
    BY <1>1, <2>1 DEF Onward, NextOf
<1>3. ASSUME NEW m \in 0 .. n - 1
      PROVE  /\ Walk(tbl, me)[m] \in Getter \ {me}
             /\ tbl[Walk(tbl, me)[m]].is_waited
             /\ Walk(tbl, me)[m + 1] = NextOf(tbl, Walk(tbl, me)[m])
  <2>1. m \in Steps /\ m + 1 \in Steps /\ m + 1 # 0 /\ (m + 1) - 1 = m
    BY SizeAssumption DEF Steps
  <2>2. ~Returns(tbl, me, m)
    OBVIOUS
  <2>3. /\ Walk(tbl, me)[m] # NoGetter
        /\ tbl[Walk(tbl, me)[m]].is_waited
        /\ Walk(tbl, me)[m] # me
    BY <2>2 DEF Returns, Decided
  <2>4. Walk(tbl, me)[m] \in Getter
    BY <2>1, <2>3, WalkSteps DEF Steps
  <2>5. Walk(tbl, me)[m + 1] = Onward(tbl)[Walk(tbl, me)[m]]
    BY <2>1, WalkSteps DEF Steps
  <2> QED
    BY <2>3, <2>4, <2>5 DEF Onward, NextOf
<1> QED
  BY <1>2, <1>3

\* A walk that comes back has gone round a ring.
LEMMA BackMeansRing ==
  ASSUME NEW tbl, NEW me \in Getter, tbl[me].is_waited, NEW n \in Steps,
         Walk(tbl, me)[n] = me, \A m \in 0 .. n - 1 : ~Returns(tbl, me, m)
  PROVE  Way(tbl, me, n) \in SUBSET Getter /\ RingOf(tbl, Way(tbl, me, n))
<1> DEFINE at == Walk(tbl, me)
           S == Way(tbl, me, n)
<1>1. /\ at[0] = NextOf(tbl, me)
      /\ \A m \in 0 .. n - 1 : at[m] \in Getter \ {me} /\ at[m + 1] = NextOf(tbl, at[m])
  BY WalkGoesOn
<1>2. S = {me} \cup {at[m] : m \in 0 .. n - 1}
  BY DEF Way
<1>3. n \in Nat
  BY SizeAssumption DEF Steps
<1>4. at[n] = me
  OBVIOUS
<1> HIDE DEF at, S
<1>5. \A i \in S : NextOf(tbl, i) \in S
  <2>1. NextOf(tbl, me) \in S
    <3>1. CASE n = 0
      BY <1>1, <1>2, <1>4, <3>1
    <3>2. CASE n # 0
      <4>1. 0 \in 0 .. n - 1
        BY <1>3, <3>2
      <4> QED
        BY <1>1, <1>2, <4>1
    <3> QED
      BY <3>1, <3>2
  <2>2. ASSUME NEW m \in 0 .. n - 1
        PROVE  NextOf(tbl, at[m]) \in S
    <3>1. m + 1 = n \/ m + 1 \in 0 .. n - 1
      BY <1>3
    <3>2. at[m + 1] \in S
      BY <1>2, <1>4, <3>1
    <3> QED
      BY <1>1, <3>2
  <2> QED
    BY <1>2, <2>1, <2>2
<1>6. \A j \in S : \E i \in S : NextOf(tbl, i) = j
  <2>1. ASSUME NEW m \in 0 .. n
        PROVE  \E i \in S : NextOf(tbl, i) = at[m]
    <3>1. CASE m = 0
      BY <1>1, <1>2, <3>1
    <3>2. CASE m # 0
      <4>1. m - 1 \in 0 .. n - 1 /\ (m - 1) + 1 = m
        BY <1>3, <3>2
      <4>2. NextOf(tbl, at[m - 1]) = at[m] /\ at[m - 1] \in S
        BY <1>1, <1>2, <4>1
      <4> QED
        BY <4>2
    <3> QED
      BY <3>1, <3>2
  <2>2. n \in 0 .. n /\ \A m \in 0 .. n - 1 : m \in 0 .. n
    BY <1>3
  <2> QED
    BY <1>2, <1>4, <2>1, <2>2
<1>7. S \in SUBSET Getter /\ S # {}
  BY <1>1, <1>2
<1>8. RingOf(tbl, S)
  BY <1>5, <1>6, <1>7 DEF RingOf
<1> QED
  BY <1>7, <1>8 DEF S

\* The rows of a ring have different rows before them.
LEMMA RingOneToOne ==
  ASSUME NEW tbl, NEW S \in SUBSET Getter, RingOf(tbl, S)
  PROVE  /\ \A i \in S : NextOf(tbl, i) \in S /\ tbl[i].is_waited
         /\ \A i, j \in S : NextOf(tbl, i) = NextOf(tbl, j) => i = j
<1> DEFINE f == [i \in S |-> NextOf(tbl, i)]
<1>1. \A i \in S : NextOf(tbl, i) \in S
  BY DEF RingOf
<1>2. \A i \in S : tbl[i].is_waited
  <2>1. NoGetter \notin Getter
    BY SizeAssumption DEF Getter, NoGetter
  <2> QED
    BY <1>1, <2>1 DEF NextOf
<1>3. f \in Surjection(S, S)
  <2>1. \A j \in S : \E i \in S : NextOf(tbl, i) = j
    BY DEF RingOf
  <2> QED
    BY <1>1, <2>1 DEF Surjection
<1>4. IsFiniteSet(S)
  <2>1. IsFiniteSet(Getter)
    BY SizeAssumption, FS_Interval DEF Getter
  <2> QED
    BY <2>1, FS_Subset
<1>5. f \in Injection(S, S)
  BY <1>3, <1>4, FS_SurjSameCardinalityImpliesInj
<1>6. \A i, j \in S : f[i] = f[j] => i = j
  BY <1>5 DEF Injection, IsInjective
<1> QED
  BY <1>1, <1>2, <1>6

\* A walk in a ring that comes to a row again has been back at its start.
LEMMA RoundTheRing ==
  ASSUME NEW tbl, NEW me \in Getter, NEW S \in SUBSET Getter, me \in S, RingOf(tbl, S)
  PROVE  /\ \A n \in Steps : Walk(tbl, me)[n] \in S
         /\ \A n \in Steps : \A m \in 0 .. n - 1 :
               Walk(tbl, me)[n] = Walk(tbl, me)[m] => \E k \in 0 .. n - 1 : Walk(tbl, me)[k] = me
<1> DEFINE at == Walk(tbl, me)
<1>0. Steps \in SUBSET Nat /\ \A n \in Steps : \A m \in 0 .. n - 1 : m \in Steps
  BY SizeAssumption DEF Steps
<1>1. /\ \A i \in S : NextOf(tbl, i) \in S /\ tbl[i].is_waited
      /\ \A i, j \in S : NextOf(tbl, i) = NextOf(tbl, j) => i = j
  BY RingOneToOne
<1>2. \A n \in Steps : at[n] = Onward(tbl)[IF n = 0 THEN me ELSE at[n - 1]]
  BY WalkSteps DEF Steps
<1>3. \A i \in S : Onward(tbl)[i] = NextOf(tbl, i)
  <2>1. NoGetter \notin Getter
    BY SizeAssumption DEF Getter, NoGetter
  <2> QED
    BY <1>1, <2>1 DEF Onward, NextOf
<1> HIDE DEF at
<1>4. \A n \in Steps : at[n] \in S
  <2> DEFINE Off == {n \in Steps : at[n] \notin S}
  <2> SUFFICES ASSUME Off # {}
               PROVE  FALSE
    OBVIOUS
  <2>1. Off \in SUBSET Nat
    BY <1>0
  <2>2. Min(Off) \in Off /\ \A n \in Off : Min(Off) <= n
    BY <2>1, LeastIsMin
  <2> DEFINE n == Min(Off)
  <2> HIDE DEF n
  <2>3. n \in Steps /\ n \in Nat /\ at[n] \notin S /\ \A m \in Off : n <= m
    BY <1>0, <2>2 DEF n
  <2>4. CASE n = 0
    BY <1>1, <1>2, <1>3, <2>3, <2>4
  <2>5. CASE n # 0
    <3>1. n - 1 \in 0 .. n - 1 /\ ~(n <= n - 1)
      BY <2>3, <2>5
    <3>2. at[n - 1] \in S
      BY <1>0, <2>3, <3>1
    <3> QED
      BY <1>1, <1>2, <1>3, <2>3, <2>5, <3>2
  <2> QED
    BY <2>4, <2>5
<1>5. \A n \in Steps : at[n] = NextOf(tbl, IF n = 0 THEN me ELSE at[n - 1])
  <2>1. \A n \in Steps : n # 0 => n - 1 \in Steps
    BY SizeAssumption DEF Steps
  <2> QED
    BY <1>2, <1>3, <1>4, <2>1
<1>6. \A n \in Steps : \A m \in 0 .. n - 1 : at[n] = at[m] => \E k \in 0 .. n - 1 : at[k] = me
  <2> DEFINE Bad == {n \in Steps : /\ \E m \in 0 .. n - 1 : at[n] = at[m]
                                   /\ \A k \in 0 .. n - 1 : at[k] # me}
  <2> SUFFICES ASSUME Bad # {}
               PROVE  FALSE
    OBVIOUS
  <2>1. Bad \in SUBSET Nat
    BY <1>0
  <2>2. Min(Bad) \in Bad /\ \A n \in Bad : Min(Bad) <= n
    BY <2>1, LeastIsMin
  <2> DEFINE n == Min(Bad)
  <2> HIDE DEF n
  <2>3. /\ n \in Steps /\ n \in Nat /\ \A k \in Bad : n <= k
        /\ \A k \in 0 .. n - 1 : at[k] # me
    BY <1>0, <2>2 DEF n
  <2>4. PICK m \in 0 .. n - 1 : at[n] = at[m]
    BY <2>2 DEF n
  <2>5. n # 0 /\ n - 1 \in Steps /\ m \in Steps /\ m \in Nat /\ n - 1 \in 0 .. n - 1
    BY <1>0, <2>3, <2>4
  <2>6. at[n - 1] \in S /\ at[n] = NextOf(tbl, at[n - 1])
    BY <1>4, <1>5, <2>3, <2>5
  <2>7. CASE m = 0
    <3>1. at[m] = NextOf(tbl, me)
      BY <1>5, <2>5, <2>7
    <3>2. at[n - 1] = me
      BY <1>1, <2>4, <2>6, <3>1
    <3> QED
      BY <2>3, <2>5, <3>2
  <2>8. CASE m # 0
    <3>1. m - 1 \in Steps /\ m - 1 \in 0 .. (n - 1) - 1
      BY <1>0, <2>3, <2>4, <2>5, <2>8
    <3>2. at[m - 1] \in S /\ at[m] = NextOf(tbl, at[m - 1])
      BY <1>4, <1>5, <2>5, <2>8, <3>1
    <3>3. at[n - 1] = at[m - 1]
      BY <1>1, <2>4, <2>6, <3>2
    <3>4. \A k \in 0 .. (n - 1) - 1 : k \in 0 .. n - 1
      BY <2>3
    <3>5. n - 1 \in Bad
      BY <2>3, <2>5, <3>1, <3>3, <3>4
    <3> QED
      BY <2>3, <3>5
  <2> QED
    BY <2>7, <2>8
<1> QED
  BY <1>4, <1>6 DEF at

\* There are more steps than rows: a walk that finds a row in each comes to one
\* of them again.
LEMMA StepsRepeat ==
  ASSUME NEW at, \A n \in Steps : at[n] \in Getter
  PROVE  \E n \in Steps : \E m \in 0 .. n - 1 : at[n] = at[m]
<1>1. /\ IsFiniteSet(Steps) /\ Cardinality(Steps) = MAX_MUTEX_GETTER_NUM + 1
      /\ IsFiniteSet(Getter) /\ Cardinality(Getter) = MAX_MUTEX_GETTER_NUM
  <2>1. /\ IsFiniteSet(Steps)
        /\ Cardinality(Steps) = IF 0 > MAX_MUTEX_GETTER_NUM THEN 0 ELSE MAX_MUTEX_GETTER_NUM - 0 + 1
    BY SizeAssumption, FS_Interval DEF Steps
  <2>2. /\ IsFiniteSet(Getter)
        /\ Cardinality(Getter) = IF 0 > MAX_MUTEX_GETTER_NUM - 1 THEN 0
                                 ELSE (MAX_MUTEX_GETTER_NUM - 1) - 0 + 1
    BY SizeAssumption, FS_Interval DEF Getter
  <2> QED
    BY <2>1, <2>2, SizeAssumption
<1> DEFINE f == [n \in Steps |-> at[n]]
<1>2. f \in [Steps -> Getter]
  OBVIOUS
<1>3. Cardinality(Getter) < Cardinality(Steps)
  BY <1>1, SizeAssumption
<1> HIDE DEF f
<1>4. PICK x \in Steps, y \in Steps : x # y /\ f[x] = f[y]
  BY <1>1, <1>2, <1>3, FS_PigeonHole
<1>5. x \in Nat /\ y \in Nat /\ at[x] = at[y]
  BY <1>4, SizeAssumption DEF f, Steps
<1>6. x \in 0 .. y - 1 \/ y \in 0 .. x - 1
  BY <1>4, <1>5
<1> QED
  BY <1>5, <1>6

\* So a walk in a ring returns, and returns to its start.
LEMMA RingMeansBack ==
  ASSUME NEW tbl, NEW me \in Getter, NEW S \in SUBSET Getter, me \in S, RingOf(tbl, S)
  PROVE  isDeadLock(tbl, me) = "YES"
<1> DEFINE at == Walk(tbl, me)
<1>0. Steps \in SUBSET Nat /\ \A n \in Steps : \A m \in 0 .. n - 1 : m \in Steps
  BY SizeAssumption DEF Steps
<1>1. \A i \in S : tbl[i].is_waited
  BY RingOneToOne
<1>2. \A n \in Steps : at[n] \in S
  BY RoundTheRing
<1>3. \A n \in Steps : \A m \in 0 .. n - 1 : at[n] = at[m] => \E k \in 0 .. n - 1 : at[k] = me
  BY RoundTheRing
<1>4. \A n \in Steps : at[n] = me => Returns(tbl, me, n)
  BY DEF Returns, Decided
<1>5. \E n \in Steps : Returns(tbl, me, n)
  <2>1. \E n \in Steps : \E m \in 0 .. n - 1 : at[n] = at[m]
    BY <1>2, StepsRepeat
  <2> QED
    BY <1>0, <1>3, <1>4, <2>1
<1> DEFINE R == {n \in Steps : Returns(tbl, me, n)}
           r == Min(R)
<1>6. r \in R /\ \A n \in R : r <= n
  BY <1>0, <1>5, LeastIsMin
<1>7. r \in Steps /\ r \in Nat /\ Returns(tbl, me, r)
  BY <1>0, <1>6
<1> HIDE DEF r, at
<1>8. \A m \in 0 .. r - 1 : ~Returns(tbl, me, m)
  <2> SUFFICES ASSUME NEW m \in 0 .. r - 1, Returns(tbl, me, m)
               PROVE  FALSE
    OBVIOUS
  <2>1. m \in R
    BY <1>0, <1>7
  <2>2. r <= m
    BY <1>6, <2>1
  <2> QED
    BY <1>7, <2>2
<1>9. at[r] = me
  <2> SUFFICES ASSUME at[r] # me
               PROVE  FALSE
    OBVIOUS
  <2>1. NoGetter \notin Getter
    BY SizeAssumption DEF Getter, NoGetter
  <2>2. at[r] \in S /\ at[r] # NoGetter /\ tbl[at[r]].is_waited
    BY <1>1, <1>2, <1>7, <2>1
  <2>3. \A k \in Getter : tbl[k].is_used => k \in Way(tbl, me, r)
    BY <1>7, <2>2 DEF Returns, Decided, at
  <2>4. tbl[at[r]].is_used
    BY <1>7, <2>2, WalkSteps DEF Steps, at
  <2>5. at[r] \in Way(tbl, me, r)
    BY <2>2, <2>3, <2>4
  <2>6. PICK m \in 0 .. r - 1 : at[r] = at[m]
    BY <2>5 DEF Way, at
  <2>7. PICK k \in 0 .. r - 1 : at[k] = me
    BY <1>3, <1>7, <2>6
  <2> QED
    BY <1>0, <1>4, <1>7, <1>8, <2>7
<1> QED
  BY <1>1, <1>7, <1>8, <1>9, Verdicts DEF at

\* The answer of isDeadLock: yes exactly for a row in a ring.
LEMMA YesIsRing ==
  ASSUME NEW tbl, NEW me \in Getter
  PROVE  isDeadLock(tbl, me) = "YES" <=> \E S \in SUBSET Getter : me \in S /\ RingOf(tbl, S)
<1>1. ASSUME isDeadLock(tbl, me) = "YES"
      PROVE  \E S \in SUBSET Getter : me \in S /\ RingOf(tbl, S)
  <2>1. tbl[me].is_waited
    BY <1>1, Verdicts
  <2>2. PICK n \in Steps : /\ Walk(tbl, me)[n] = me
                           /\ \A m \in 0 .. n - 1 : ~Returns(tbl, me, m)
    BY <1>1, Verdicts
  <2>3. Way(tbl, me, n) \in SUBSET Getter /\ RingOf(tbl, Way(tbl, me, n))
    BY <2>1, <2>2, BackMeansRing
  <2>4. me \in Way(tbl, me, n)
    BY DEF Way
  <2> QED
    BY <2>3, <2>4
<1> QED
  BY <1>1, RingMeansBack

----------------------------------------------------------------------------
(* Walks that do not return *)

\* Rows that the waits of row me do not lead out of.
LeadsOf(tbl, me, S) == me \in S /\ \A j \in S : NextOf(tbl, j) \in S \cup {NoGetter}

\* The walk stays in such a set until it returns.
LEMMA WalkStays ==
  ASSUME NEW tbl, NEW me \in Getter, tbl[me].is_waited, NEW S \in SUBSET Getter, LeadsOf(tbl, me, S),
         NEW n \in Steps, \A m \in 0 .. n - 1 : ~Returns(tbl, me, m)
  PROVE  Way(tbl, me, n) \subseteq S
<1> DEFINE at == Walk(tbl, me)
           Off == {m \in 0 .. n - 1 : at[m] \notin S}
<1>1. /\ at[0] = NextOf(tbl, me)
      /\ \A m \in 0 .. n - 1 : at[m] \in Getter \ {me} /\ at[m + 1] = NextOf(tbl, at[m])
  BY WalkGoesOn
<1>2. n \in Nat /\ NoGetter \notin Getter
  BY SizeAssumption DEF Steps, Getter, NoGetter
<1> HIDE DEF at
<1>3. Off = {}
  <2> SUFFICES ASSUME Off # {}
               PROVE  FALSE
    OBVIOUS
  <2>1. Off \in SUBSET Nat
    BY <1>2
  <2>2. Min(Off) \in Off /\ \A m \in Off : Min(Off) <= m
    BY <2>1, LeastIsMin
  <2> DEFINE k == Min(Off)
  <2> HIDE DEF k
  <2>3. k \in 0 .. n - 1 /\ k \in Nat /\ at[k] \notin S /\ \A m \in Off : k <= m
    BY <1>2, <2>2 DEF k
  <2>4. CASE k = 0
    BY <1>1, <1>2, <2>3, <2>4 DEF LeadsOf
  <2>5. CASE k # 0
    <3>1. k - 1 \in 0 .. n - 1 /\ (k - 1) + 1 = k /\ ~(k <= k - 1)
      BY <1>2, <2>3, <2>5
    <3>2. at[k - 1] \in S
      BY <2>3, <3>1
    <3>3. at[k] = NextOf(tbl, at[k - 1]) /\ at[k] \in Getter
      BY <1>1, <2>3, <3>1
    <3> QED
      BY <1>2, <2>3, <3>2, <3>3 DEF LeadsOf
  <2> QED
    BY <2>4, <2>5
<1>4. \A m \in 0 .. n - 1 : at[m] \in S
  BY <1>3
<1> QED
  BY <1>4 DEF at, Way, LeadsOf

\* A walk that does not return has gone round a ring it is not part of, and has
\* left a row in use aside.
LEMMA LoopsMeans ==
  ASSUME NEW tbl, NEW me \in Getter, tbl[me].is_waited, \A n \in Steps : ~Returns(tbl, me, n)
  PROVE  /\ \A S \in SUBSET Getter : LeadsOf(tbl, me, S) => \E R \in SUBSET S : RingOf(tbl, R)
         /\ \E S \in SUBSET Getter : LeadsOf(tbl, me, S) /\ \E k \in Getter \ S : tbl[k].is_used
<1> DEFINE at == Walk(tbl, me)
           top == MAX_MUTEX_GETTER_NUM
<1>0. /\ top \in Nat /\ top \in Steps /\ Steps \in SUBSET Nat
      /\ \A n \in Steps : \A m \in 0 .. n - 1 : m \in Steps /\ m \in 0 .. top - 1
      /\ \A m \in 0 .. top : m \in Steps
  BY SizeAssumption DEF Steps
<1>1. /\ at[0] = NextOf(tbl, me)
      /\ \A m \in 0 .. top - 1 : at[m] \in Getter \ {me} /\ at[m + 1] = NextOf(tbl, at[m])
  BY <1>0, WalkGoesOn
<1>2. at[top] \in Getter /\ \E k \in Getter : tbl[k].is_used /\ k \notin Way(tbl, me, top)
  <2>1. ~Returns(tbl, me, top)
    BY <1>0
  <2>2. at[top] # NoGetter /\ \E k \in Getter : tbl[k].is_used /\ k \notin Way(tbl, me, top)
    BY <2>1 DEF Returns, Decided
  <2>3. at[top] \in Getter \cup {NoGetter}
    BY <1>0, WalkSteps DEF Steps
  <2> QED
    BY <2>2, <2>3
<1>3. \A n \in Steps : at[n] \in Getter
  <2>1. \A n \in Steps : n = top \/ n \in 0 .. top - 1
    BY SizeAssumption DEF Steps
  <2> QED
    BY <1>1, <1>2, <2>1
<1>12. PICK r \in Steps : \E m \in 0 .. r - 1 : at[r] = at[m]
  BY <1>3, StepsRepeat
<1>4. PICK s \in 0 .. r - 1 : at[r] = at[s]
  BY <1>12
<1>5. r \in Nat /\ s \in Nat /\ s < r /\ 0 \in 0 .. r - 1 /\ r <= top
  BY <1>0, <1>4 DEF Steps
<1>6. \A m \in 0 .. r - 1 : /\ at[m + 1] = NextOf(tbl, at[m])
                            /\ m + 1 = r \/ m + 1 \in 0 .. r - 1
  BY <1>0, <1>1, <1>5
<1>7. Way(tbl, me, r) = {me} \cup {at[m] : m \in 0 .. r - 1}
  BY DEF Way
<1>8. Way(tbl, me, top) = {me} \cup {at[m] : m \in 0 .. top - 1}
  BY DEF Way
<1> HIDE DEF at, top
<1>9. LeadsOf(tbl, me, Way(tbl, me, r))
  <2>1. NextOf(tbl, me) \in Way(tbl, me, r)
    BY <1>1, <1>5, <1>7
  <2>2. ASSUME NEW m \in 0 .. r - 1
        PROVE  NextOf(tbl, at[m]) \in Way(tbl, me, r)
    BY <1>4, <1>6, <1>7
  <2> QED
    BY <1>7, <2>1, <2>2 DEF LeadsOf
<1>10. \E S \in SUBSET Getter : LeadsOf(tbl, me, S) /\ \E k \in Getter \ S : tbl[k].is_used
  <2>1. Way(tbl, me, r) \in SUBSET Getter
    BY <1>0, <1>3, <1>7
  <2>2. Way(tbl, me, r) \subseteq Way(tbl, me, top)
    BY <1>0, <1>7, <1>8
  <2> QED
    BY <1>2, <1>9, <2>1, <2>2
<1>11. ASSUME NEW S \in SUBSET Getter, LeadsOf(tbl, me, S)
       PROVE  \E R \in SUBSET S : RingOf(tbl, R)
  <2> DEFINE R == {at[m] : m \in s .. r - 1}
  <2>1. \A m \in 0 .. r - 1 : ~Returns(tbl, me, m)
    BY <1>0, <1>4
  <2>2. Way(tbl, me, r) \subseteq S
    BY <1>4, <1>11, <2>1, WalkStays
  <2>3. \A m \in s .. r - 1 : m \in 0 .. r - 1
    BY <1>5
  <2>4. R \in SUBSET S
    BY <1>7, <2>2, <2>3
  <2>5. \A i \in R : NextOf(tbl, i) \in R
    <3>1. ASSUME NEW m \in s .. r - 1
          PROVE  NextOf(tbl, at[m]) \in R
      <4>1. NextOf(tbl, at[m]) = at[m + 1]
        BY <1>6, <2>3
      <4>2. m + 1 = r \/ m + 1 \in s .. r - 1
        BY <1>5
      <4>3. s \in s .. r - 1
        BY <1>5
      <4> QED
        BY <1>4, <4>1, <4>2, <4>3
    <3> QED
      BY <3>1
  <2>6. \A j \in R : \E i \in R : NextOf(tbl, i) = j
    <3>1. ASSUME NEW m \in s .. r - 1
          PROVE  \E i \in R : NextOf(tbl, i) = at[m]
      <4>1. CASE m = s
        <5>1. r - 1 \in s .. r - 1 /\ (r - 1) + 1 = r /\ r - 1 \in 0 .. r - 1
          BY <1>5
        <5>2. NextOf(tbl, at[r - 1]) = at[r]
          BY <1>6, <5>1
        <5> QED
          BY <1>4, <4>1, <5>1, <5>2
      <4>2. CASE m # s
        <5>1. m - 1 \in s .. r - 1 /\ (m - 1) + 1 = m /\ m - 1 \in 0 .. r - 1
          BY <1>5, <4>2
        <5>2. NextOf(tbl, at[m - 1]) = at[m]
          BY <1>6, <5>1
        <5> QED
          BY <5>1, <5>2
      <4> QED
        BY <4>1, <4>2
    <3> QED
      BY <3>1
  <2>7. R # {}
    <3>1. s \in s .. r - 1
      BY <1>5
    <3> QED
      BY <3>1
  <2> HIDE DEF R
  <2>8. RingOf(tbl, R)
    BY <2>5, <2>6, <2>7 DEF RingOf
  <2> QED
    BY <2>4, <2>8
<1> QED
  BY <1>10, <1>11

\* A walk that leads into a ring beside its start, with a row in use aside, does
\* not return.
LEMMA BesideMeansLoops ==
  ASSUME NEW tbl, NEW me \in Getter, tbl[me].is_waited,
         \A S \in SUBSET Getter : LeadsOf(tbl, me, S) => \E R \in SUBSET S : RingOf(tbl, R),
         ~\E S \in SUBSET Getter : me \in S /\ RingOf(tbl, S),
         \E S \in SUBSET Getter : LeadsOf(tbl, me, S) /\ \E k \in Getter \ S : tbl[k].is_used
  PROVE  \A n \in Steps : ~Returns(tbl, me, n)
<1> DEFINE at == Walk(tbl, me)
           Ends == {n \in Steps : Returns(tbl, me, n)}
<1> SUFFICES ASSUME Ends # {}
             PROVE  FALSE
  OBVIOUS
<1>0. NoGetter \notin Getter /\ Steps \in SUBSET Nat /\ \A n \in Steps : \A m \in 0 .. n - 1 : m \in Steps
  BY SizeAssumption DEF Steps, Getter, NoGetter
<1>1. Min(Ends) \in Ends /\ \A m \in Ends : Min(Ends) <= m
  BY <1>0, LeastIsMin
<1> DEFINE n == Min(Ends)
<1> HIDE DEF n
<1>2. n \in Steps /\ n \in Nat /\ Returns(tbl, me, n) /\ \A m \in Ends : n <= m
  BY <1>0, <1>1 DEF n
<1>3. \A m \in 0 .. n - 1 : ~Returns(tbl, me, m)
  <2> SUFFICES ASSUME NEW m \in 0 .. n - 1, Returns(tbl, me, m)
               PROVE  FALSE
    OBVIOUS
  <2>1. m \in Ends
    BY <1>0, <1>2
  <2>2. n <= m
    BY <1>2, <2>1
  <2> QED
    BY <1>2, <2>2
<1>4. /\ at[0] = NextOf(tbl, me)
      /\ \A m \in 0 .. n - 1 : at[m] \in Getter \ {me} /\ at[m + 1] = NextOf(tbl, at[m])
  BY <1>2, <1>3, WalkGoesOn
<1>5. at[n] # me
  <2> SUFFICES ASSUME at[n] = me
               PROVE  FALSE
    OBVIOUS
  <2>1. Way(tbl, me, n) \in SUBSET Getter /\ RingOf(tbl, Way(tbl, me, n))
    BY <1>2, <1>3, BackMeansRing
  <2> QED
    BY <2>1 DEF Way
<1>6. ~\A k \in Getter : tbl[k].is_used => k \in Way(tbl, me, n)
  <2>1. PICK S \in SUBSET Getter : LeadsOf(tbl, me, S) /\ \E k \in Getter \ S : tbl[k].is_used
    OBVIOUS
  <2>2. Way(tbl, me, n) \subseteq S
    BY <1>2, <1>3, <2>1, WalkStays
  <2> QED
    BY <2>1, <2>2
<1>7. at[n] = NoGetter \/ ~tbl[at[n]].is_waited
  BY <1>2, <1>5, <1>6 DEF Returns, Decided
<1>8. at[n] \in Getter \cup {NoGetter}
  BY <1>2, WalkSteps DEF Steps
<1> HIDE DEF at
<1>9. NextOf(tbl, at[n]) = NoGetter \/ at[n] = NoGetter
  BY <1>7 DEF NextOf
<1> DEFINE T == ({me} \cup {at[m] : m \in 0 .. n}) \cap Getter
<1>10. LeadsOf(tbl, me, T)
  <2>1. ASSUME NEW m \in 0 .. n
        PROVE  at[m] \in T \cup {NoGetter}
    <3>1. m = n \/ m \in 0 .. n - 1
      BY <1>2
    <3> QED
      BY <1>4, <1>8, <3>1
  <2>2. NextOf(tbl, me) \in T \cup {NoGetter}
    <3>1. 0 \in 0 .. n
      BY <1>2
    <3> QED
      BY <1>4, <2>1, <3>1
  <2>3. ASSUME NEW m \in 0 .. n, at[m] \in Getter
        PROVE  NextOf(tbl, at[m]) \in T \cup {NoGetter}
    <3>1. CASE m = n
      BY <1>0, <1>9, <2>3, <3>1
    <3>2. CASE m # n
      <4>1. m \in 0 .. n - 1 /\ m + 1 \in 0 .. n
        BY <1>2, <3>2
      <4> QED
        BY <1>4, <2>1, <4>1
    <3> QED
      BY <3>1, <3>2
  <2> QED
    BY <2>2, <2>3 DEF LeadsOf
<1>11. PICK R \in SUBSET T : RingOf(tbl, R)
  BY <1>10
<1>12. R # {} /\ \A i \in R : NextOf(tbl, i) \in R
  BY <1>11 DEF RingOf
<1>13. me \notin R
  BY <1>11
<1> DEFINE D == {d \in 0 .. n : at[n - d] \in R}
<1>14. D # {}
  <2>1. PICK i \in R : TRUE
    BY <1>12
  <2>2. PICK m \in 0 .. n : i = at[m]
    BY <1>13, <2>1
  <2>3. n - m \in 0 .. n /\ n - (n - m) = m
    BY <1>2
  <2>4. n - m \in D
    BY <2>1, <2>2, <2>3
  <2> QED
    BY <2>4
<1>15. D \in SUBSET Nat
  BY <1>2
<1>16. Min(D) \in D /\ \A d \in D : Min(D) <= d
  BY <1>14, <1>15, LeastIsMin
<1> DEFINE d == Min(D)
<1> HIDE DEF d
<1>17. d \in 0 .. n /\ d \in Nat /\ at[n - d] \in R /\ \A e \in D : d <= e
  BY <1>15, <1>16 DEF d
<1>18. R \subseteq Getter
  OBVIOUS
<1>19. CASE d = 0
  <2>1. n - d = n
    BY <1>2, <1>19
  <2>2. at[n] \in R
    BY <1>17, <2>1
  <2> QED
    BY <1>0, <1>9, <1>12, <1>18, <2>2
<1>20. CASE d # 0
  <2>1. n - d \in 0 .. n - 1 /\ (n - d) + 1 = n - (d - 1) /\ d - 1 \in 0 .. n /\ ~(d <= d - 1)
    BY <1>2, <1>17, <1>20
  <2>2. at[n - (d - 1)] \in R
    BY <1>4, <1>12, <1>17, <2>1
  <2>3. d - 1 \in D
    BY <2>1, <2>2
  <2> QED
    BY <1>17, <2>1, <2>3
<1> QED
  BY <1>19, <1>20

\* When isDeadLock does not return: exactly beside a ring, with a row aside.
LEMMA LoopsIsBeside ==
  ASSUME NEW tbl, NEW me \in Getter, tbl[me].is_waited
  PROVE  isDeadLock(tbl, me) = "LOOPS" <=>
            /\ \A S \in SUBSET Getter : LeadsOf(tbl, me, S) => \E R \in SUBSET S : RingOf(tbl, R)
            /\ ~\E S \in SUBSET Getter : me \in S /\ RingOf(tbl, S)
            /\ \E S \in SUBSET Getter : LeadsOf(tbl, me, S) /\ \E k \in Getter \ S : tbl[k].is_used
<1>1. isDeadLock(tbl, me) = "LOOPS" <=> \A n \in Steps : ~Returns(tbl, me, n)
  BY Verdicts
<1>2. isDeadLock(tbl, me) = "LOOPS" => ~\E S \in SUBSET Getter : me \in S /\ RingOf(tbl, S)
  BY YesIsRing
<1> QED
  BY <1>1, <1>2, LoopsMeans, BesideMeansLoops

=============================================================================
