--------------------------- MODULE MymutexProofs ---------------------------
(***************************************************************************)
(* Proofs about Mymutex, for any number of threads, mutexes, slots and     *)
(* rows, any identity the threads have and any locking order: exclusion,   *)
(* the mutex over the table, what the table says, and the refinement of    *)
(* LockManager, step by step, with what is proved of LockManager seen      *)
(* through the mapping.                                                    *)
(***************************************************************************)
EXTENDS MymutexRefinement, MutexChecksProofs

\* mymutex_lock finds or takes a row of the table.
LEMMA LockRowInTable ==
  ASSUME NEW p \in Thread, Registered(p) \/ FreeRows # {}
  PROVE  /\ LockRow(p) \in Getter
         /\ Registered(p) => LockRow(p) \in RowsOf(p)
         /\ ~Registered(p) => LockRow(p) \in FreeRows
<1>1. RowsOf(p) \in SUBSET Getter /\ FreeRows \in SUBSET Getter
  BY DEF RowsOf, FreeRows
<1>2. CASE Registered(p)
  BY <1>1, <1>2, MinMaxOfRows DEF LockRow, Registered
<1>3. CASE ~Registered(p)
  BY <1>1, <1>3, MinMaxOfRows DEF LockRow, Registered
<1> QED
  BY <1>2, <1>3

\* The three ways a row is rewritten give a row.
LEMMA RowsRewritten ==
  ASSUME NEW row \in Row, NEW t \in Mutex
  PROVE  Recorded(row, t) \in Row /\ Cleared(row, t) \in Row
<1>1. t \in Mutex /\ 0 \in Mutex
  BY DEF Mutex, BEFORELOCK
<1>2. row.get_mutex_type \in [Slot -> Mutex]
  BY DEF Row
<1> DEFINE empty == {m \in Slot : row.get_mutex_type[m] = 0}
           filled == IF empty = {} THEN row.get_mutex_type
                     ELSE [row.get_mutex_type EXCEPT ![Min(empty)] = t]
           wiped == [m \in Slot |-> IF row.get_mutex_type[m] = t THEN 0
                                    ELSE row.get_mutex_type[m]]
<1>3. filled \in [Slot -> Mutex]
  BY <1>1, <1>2
<1>4. wiped \in [Slot -> Mutex]
  BY <1>1, <1>2
<1>5. Recorded(row, t) = [row EXCEPT !.is_waited = FALSE, !.wait_mutex_type = 0,
                                     !.get_mutex_type = filled]
  BY DEF Recorded
<1>6. Cleared(row, t) = [row EXCEPT !.get_mutex_type = wiped]
  BY DEF Cleared
<1> HIDE DEF filled, wiped
<1> QED
  BY <1>1, <1>3, <1>4, <1>5, <1>6 DEF Row

----------------------------------------------------------------------------
(* Types *)

\* A thread inside a call has a lockable type as its argument.
CallsTyped == \A p \in Thread : pc[p] \notin {"idle", "dead"} => mutex_type[p] \in LockType

Types == TypeOK /\ CallsTyped

\* Which actions there are: the case distinction of every step below.
LEMMA StepCases ==
  ASSUME [Next]_vars,
         NEW ACTION G,
         UNCHANGED vars => G,
         \A p \in Thread : RefuseType(p) \/ Kill(p) => G,
         \A p \in Thread, t \in LockType : CallLock(p, t) \/ CallUnlock(p, t) => G,
         \A p \in Thread : RawTake(p) \/ TakeGuard(p) \/ TakeMutex(p) => G,
         \A p \in Thread : LockNoGetter(p) \/ LockCheck(p) \/ LockRecord(p) => G,
         \A p \in Thread : UnlockStranger(p) \/ UnlockRaw(p) \/ UnlockClear(p) => G
  PROVE  G
BY DEF Next, Step, Call

\* The mode init_mymutex chose is never changed.
LEMMA ModeKept ==
  ASSUME [Next]_vars
  PROVE  UNCHANGED g_beforelock
BY DEF Next, vars

\* The table with a request entered in it is a table.
LEMMA RequestedTyped ==
  ASSUME Types, NEW p \in Thread, LockRow(p) \in Getter
  PROVE  Requested(p) \in [Getter -> Row]
<1>1. mmgetter[LockRow(p)] \in Row /\ Key[p] \in Ident /\ mutex_type[p] \in Mutex
  BY ThreadAssumption DEF Types, TypeOK
<1>2. [mmgetter[LockRow(p)] EXCEPT !.id = Key[p], !.is_used = TRUE,
          !.is_waited = TRUE, !.wait_mutex_type = mutex_type[p]] \in Row
  BY <1>1 DEF Row
<1> QED
  BY <1>2 DEF Requested, Types, TypeOK

\* No step leaves the types: the part of a call that runs under BEFORELOCK.
LEMMA GuardedStepTyped ==
  ASSUME Types, UNCHANGED g_beforelock, NEW p \in Thread,
         \/ LockNoGetter(p) \/ LockCheck(p) \/ LockRecord(p)
         \/ UnlockStranger(p) \/ UnlockRaw(p) \/ UnlockClear(p)
  PROVE  Types'
<1> USE SizeAssumption, ThreadAssumption DEF Types, CallsTyped, UnderGuard, WantsGuard, PC,
        Complaint, BEFORELOCK, Mutex
<1>1. CASE LockNoGetter(p)
  <2>1. mutex_type[p] \in LockType
    BY <1>1 DEF LockNoGetter
  <2> QED
    BY <1>1, <2>1 DEF LockNoGetter, TypeOK, ReturnReleasing, Goto, Complain
<1>2. CASE LockCheck(p)
  <2>1. LockRow(p) \in Getter
    BY <1>2, LockRowInTable DEF LockCheck
  <2>2. mmgetter' \in [Getter -> Row]
    BY <1>2, <2>1, RequestedTyped DEF LockCheck
  <2>3. mmindex' \in [Thread -> Getter]
    BY <1>2, <2>1 DEF LockCheck, TypeOK
  <2>4. logged' \in [Thread -> SUBSET Complaint]
    BY <1>2 DEF LockCheck, TypeOK, Complain, If
  <2>5. /\ pc' = [pc EXCEPT ![p] = "spin"] \/ pc' = [pc EXCEPT ![p] = "lk_wait"]
        /\ owner' \in {owner, [owner EXCEPT ![BEFORELOCK] = NoThread]}
    BY <1>2 DEF LockCheck, Goto
  <2>6. pc[p] = "lk_check" /\ UNCHANGED <<mutex_lock_count, mutex_type, inside>>
    BY <1>2 DEF LockCheck
  <2> QED
    BY <2>2, <2>3, <2>4, <2>5, <2>6 DEF TypeOK
<1>3. CASE LockRecord(p)
  <2>1. mutex_type[p] \in LockType
    BY <1>3 DEF LockRecord
  <2>2. mmindex[p] \in Getter /\ mmgetter[mmindex[p]] \in Row
    BY DEF TypeOK
  <2>3. Recorded(mmgetter[mmindex[p]], mutex_type[p]) \in Row
    BY <2>1, <2>2, RowsRewritten
  <2>4. mmgetter' \in [Getter -> Row]
    BY <1>3, <2>3 DEF LockRecord, TypeOK
  <2>5. logged' \in [Thread -> SUBSET Complaint]
    BY <1>3 DEF LockRecord, TypeOK, Complain, If
  <2>6. mutex_lock_count' \in [LockType -> Int]
    BY <1>3, <2>1 DEF LockRecord, TypeOK
  <2> QED
    BY <1>3, <2>1, <2>4, <2>5, <2>6 DEF LockRecord, TypeOK, ReturnReleasing, Goto
<1>4. CASE UnlockStranger(p)
  BY <1>4 DEF UnlockStranger, TypeOK, ReturnReleasing, Goto, Complain
<1>5. CASE UnlockRaw(p)
  <2>1. RowsOf(p) \in SUBSET Getter /\ RowsOf(p) # {}
    BY <1>5 DEF UnlockRaw, Registered, RowsOf
  <2>2. Min(RowsOf(p)) \in Getter
    BY <2>1, MinMaxOfRows
  <2>3. owner' \in [Mutex -> Thread \cup {NoThread}]
    BY <1>5 DEF UnlockRaw, UnlockedBy, TypeOK
  <2> QED
    BY <1>5, <2>2, <2>3 DEF UnlockRaw, TypeOK, Goto
<1>6. CASE UnlockClear(p)
  <2>1. mutex_type[p] \in LockType
    BY <1>6 DEF UnlockClear
  <2>2. mmindex[p] \in Getter /\ mmgetter[mmindex[p]] \in Row
    BY DEF TypeOK
  <2>3. Cleared(mmgetter[mmindex[p]], mutex_type[p]) \in Row
    BY <2>1, <2>2, RowsRewritten
  <2>4. mmgetter' \in [Getter -> Row]
    BY <1>6, <2>3 DEF UnlockClear, TypeOK
  <2>5. logged' \in [Thread -> SUBSET Complaint]
    BY <1>6 DEF UnlockClear, TypeOK, Complain, If
  <2>6. mutex_lock_count' \in [LockType -> Int]
    BY <1>6, <2>1 DEF UnlockClear, TypeOK
  <2> QED
    BY <1>6, <2>1, <2>4, <2>5, <2>6 DEF UnlockClear, TypeOK, ReturnReleasing, Goto
<1> QED
  BY <1>1, <1>2, <1>3, <1>4, <1>5, <1>6

\* No step leaves the types.
LEMMA TypesStep ==
  ASSUME Types, [Next]_vars
  PROVE  Types'
<1> SUFFICES ASSUME UNCHANGED g_beforelock
             PROVE  Types'
  BY ModeKept
<1> USE SizeAssumption, ThreadAssumption DEF Types, CallsTyped, UnderGuard, WantsGuard, PC,
        Complaint, BEFORELOCK, Mutex
<1>1. UNCHANGED vars => Types'
  BY DEF vars, TypeOK
<1>2. ASSUME NEW p \in Thread, RefuseType(p)
      PROVE  Types'
  BY <1>2 DEF RefuseType, TypeOK
<1>3. ASSUME NEW p \in Thread, Kill(p)
      PROVE  Types'
  BY <1>3 DEF Kill, TypeOK, Goto
<1>4. ASSUME NEW p \in Thread, NEW t \in LockType, CallLock(p, t)
      PROVE  Types'
  BY <1>4 DEF CallLock, TypeOK, Goto
<1>5. ASSUME NEW p \in Thread, NEW t \in LockType, CallUnlock(p, t)
      PROVE  Types'
  <2>1. owner' \in [Mutex -> Thread \cup {NoThread}]
    BY <1>5 DEF CallUnlock, TypeOK, UnlockedBy
  <2>2. pc' = pc \/ pc' = [pc EXCEPT ![p] = "ul_guard"]
    BY <1>5 DEF CallUnlock, Goto
  <2> QED
    BY <1>5, <2>1, <2>2 DEF CallUnlock, TypeOK
<1>6. ASSUME NEW p \in Thread, RawTake(p)
      PROVE  Types'
  BY <1>6 DEF RawTake, TypeOK, Goto
<1>7. ASSUME NEW p \in Thread, TakeGuard(p)
      PROVE  Types'
  BY <1>7 DEF TakeGuard, TypeOK, Goto
<1>8. ASSUME NEW p \in Thread, TakeMutex(p)
      PROVE  Types'
  BY <1>8 DEF TakeMutex, TypeOK, Goto
<1> HIDE DEF Types
<1> QED
  BY <1>1, <1>2, <1>3, <1>4, <1>5, <1>6, <1>7, <1>8, GuardedStepTyped, StepCases

\* The type invariant of every run, for every value of the constants.
THEOREM TypeCorrect == Spec => []TypeOK
<1>1. Init => Types
  BY SizeAssumption, ThreadAssumption
     DEF Init, Types, CallsTyped, TypeOK, Row, EmptyRow, Mutex, BEFORELOCK, PC, Getter
<1>2. Types /\ [Next]_vars => Types'
  BY TypesStep
<1>3. Types => TypeOK
  BY DEF Types
<1> QED
  BY <1>1, <1>2, <1>3, PTL DEF Spec

----------------------------------------------------------------------------
(* Exclusion *)

\* The callers whose calls do take and give pthread mutexes: with BEFORELOCK in
\* use, those that have a row.
Entitled(p) == ~g_beforelock \/ Registered(p)

\* p counts on owning t: it is inside t, or in the part of a call between the
\* pthread operation on t and the return.
Claims(p, t) ==
    \/ t \in inside[p]
    \/ mutex_type[p] = t /\ pc[p] \in {"lk_back", "lk_record", "ul_guard", "ul_raw"}

ClaimsOwned == \A p \in Thread, t \in LockType : Entitled(p) /\ Claims(p, t) => owner[t] = p

\* Which build a call belongs to, and that it has a row once it has asked.
CallsPlaced == \A p \in Thread :
    /\ pc[p] = "raw_wait" => ~g_beforelock
    /\ pc[p] \in UnderGuard \cup WantsGuard \cup {"lk_wait"} => g_beforelock
    /\ pc[p] \in {"lk_wait", "lk_back", "lk_record"} => Registered(p)
    /\ pc[p] \in {"ul_guard", "ul_raw"} => mutex_type[p] \notin inside[p]

\* A thread without a row thinks it is inside something only if it was refused
\* one, and the rows never become free again.
StrangersRefused == \A p \in Thread :
    g_beforelock /\ ~Registered(p) /\ (inside[p] # {} \/ pc[p] \in {"ul_guard", "ul_raw"})
        => FreeRows = {}

IInv == Types /\ ClaimsOwned /\ CallsPlaced /\ StrangersRefused

\* Recording an acquisition or clearing a release keeps who has which row.
LEMMA RowsIdentified ==
  ASSUME Types, NEW p \in Thread, LockRecord(p) \/ UnlockClear(p)
  PROVE  \A i \in Getter : /\ mmgetter'[i].id = mmgetter[i].id
                           /\ mmgetter'[i].is_used = mmgetter[i].is_used
<1> DEFINE row == mmgetter[mmindex[p]]
           t == mutex_type[p]
<1>1. row \in Row /\ t \in Mutex
  BY DEF Types, TypeOK
<1>2. \E new \in {Recorded(row, t), Cleared(row, t)} : mmgetter' = [mmgetter EXCEPT ![mmindex[p]] = new]
  BY DEF LockRecord, UnlockClear
<1>3. \A new \in {Recorded(row, t), Cleared(row, t)} :
          new.id = row.id /\ new.is_used = row.is_used
  BY <1>1 DEF Recorded, Cleared, Row
<1> HIDE DEF row
<1>4. \A i \in Getter \ {mmindex[p]} : mmgetter'[i] = mmgetter[i]
  BY <1>2 DEF Types, TypeOK
<1>5. mmgetter'[mmindex[p]] \in {Recorded(row, t), Cleared(row, t)}
  BY <1>2 DEF Types, TypeOK
<1> QED
  BY <1>3, <1>4, <1>5 DEF row

\* So the two sets the calls search for are the same after a step that rewrites
\* no row, records or clears.
LEMMA RowsKept ==
  ASSUME Types,
         \/ UNCHANGED mmgetter
         \/ \E p \in Thread : LockRecord(p) \/ UnlockClear(p)
  PROVE  FreeRows' = FreeRows /\ \A q \in Thread : Registered(q)' = Registered(q)
<1>1. \A i \in Getter : mmgetter'[i].id = mmgetter[i].id /\ mmgetter'[i].is_used = mmgetter[i].is_used
  BY RowsIdentified
<1> QED
  BY <1>1 DEF FreeRows, Registered, RowsOf

\* Entering a request gives the caller a row, takes none from anybody, and
\* gives one to others only where one was free.
LEMMA RowTaken ==
  ASSUME Types, NEW p \in Thread, LockCheck(p)
  PROVE  /\ Registered(p)'
         /\ \A q \in Thread : Registered(q) => Registered(q)'
         /\ FreeRows = {} => FreeRows' = {} /\ \A q \in Thread : Registered(q)' = Registered(q)
<1> DEFINE r == LockRow(p)
<1>1. /\ r \in Getter
      /\ Registered(p) => r \in RowsOf(p)
      /\ ~Registered(p) => r \in FreeRows
  BY LockRowInTable DEF LockCheck
<1>2. /\ \A i \in Getter \ {r} : mmgetter'[i] = mmgetter[i]
      /\ mmgetter'[r].id = Key[p] /\ mmgetter'[r].is_used
  <2>1. mmgetter[r] \in Row
    BY <1>1 DEF Types, TypeOK
  <2>2. mmgetter' = [mmgetter EXCEPT ![r] = [mmgetter[r] EXCEPT !.id = Key[p], !.is_used = TRUE,
                        !.is_waited = TRUE, !.wait_mutex_type = mutex_type[p]]]
    BY DEF LockCheck, Requested
  <2> QED
    BY <1>1, <2>1, <2>2 DEF Types, TypeOK, Row
<1>3. Registered(p)'
  BY <1>1, <1>2 DEF Registered, RowsOf
<1>4. \A q \in Thread : Registered(q) => Registered(q)'
  <2>1. mmgetter[r].is_used => mmgetter[r].id = Key[p]
    BY <1>1 DEF RowsOf, FreeRows
  <2> QED
    BY <1>1, <1>2, <2>1 DEF Registered, RowsOf
<1>5. ASSUME FreeRows = {}
      PROVE  FreeRows' = {} /\ \A q \in Thread : Registered(q)' = Registered(q)
  <2>1. mmgetter[r].is_used /\ mmgetter[r].id = Key[p]
    BY <1>1, <1>5 DEF RowsOf
  <2> QED
    BY <1>1, <1>2, <1>5, <2>1 DEF FreeRows, Registered, RowsOf
<1> QED
  BY <1>3, <1>4, <1>5

\* The steps that touch neither a lockable mutex nor the rows.
LEMMA QuietStep ==
  ASSUME IInv, ~StrayUnlock, UNCHANGED g_beforelock, NEW p \in Thread,
         \/ RefuseType(p) \/ Kill(p) \/ TakeGuard(p)
         \/ \E t \in LockType : CallLock(p, t)
         \/ LockNoGetter(p) \/ UnlockStranger(p)
  PROVE  ClaimsOwned' /\ CallsPlaced' /\ StrangersRefused'
<1>1. /\ mmgetter' = mmgetter
      /\ \A t \in LockType : owner'[t] = owner[t]
  BY DEF RefuseType, Kill, TakeGuard, CallLock, LockNoGetter, UnlockStranger, ReturnReleasing,
         IInv, Types, TypeOK, LockType, BEFORELOCK, Mutex
<1>2. FreeRows' = FreeRows /\ \A q \in Thread : Registered(q)' = Registered(q)
  BY <1>1, RowsKept DEF IInv
<1> USE DEF IInv, Types, TypeOK, CallsPlaced, StrangersRefused, UnderGuard, WantsGuard
<1>3. CASE RefuseType(p)
  <2>1. UNCHANGED <<owner, pc, mutex_type, inside>>
    BY <1>3 DEF RefuseType
  <2> QED
    BY <1>1, <1>2, <2>1 DEF ClaimsOwned, Claims, Entitled
<1>4. CASE Kill(p)
  <2>1. /\ pc' = [pc EXCEPT ![p] = "dead"] /\ inside' = [inside EXCEPT ![p] = {}]
        /\ mutex_type' = mutex_type
    BY <1>4 DEF Kill, Goto
  <2> QED
    BY <1>1, <1>2, <2>1 DEF ClaimsOwned, Claims, Entitled
<1>5. CASE TakeGuard(p)
  <2>1. /\ pc[p] \in WantsGuard
        /\ pc' = [pc EXCEPT ![p] = CASE pc[p] = "lk_guard" -> "lk_check"
                                     [] pc[p] = "lk_back" -> "lk_record"
                                     [] pc[p] = "ul_guard" -> "ul_raw"]
        /\ inside' = inside /\ mutex_type' = mutex_type
    BY <1>5 DEF TakeGuard, Goto
  <2> QED
    BY <1>1, <1>2, <2>1 DEF ClaimsOwned, Claims, Entitled
<1>6. ASSUME NEW t \in LockType, CallLock(p, t)
      PROVE  ClaimsOwned' /\ CallsPlaced' /\ StrangersRefused'
  <2>1. /\ pc[p] = "idle"
        /\ pc' = [pc EXCEPT ![p] = IF g_beforelock THEN "lk_guard" ELSE "raw_wait"]
        /\ inside' = inside /\ mutex_type' = [mutex_type EXCEPT ![p] = t]
    BY <1>6 DEF CallLock, Goto
  <2> QED
    BY <1>1, <1>2, <2>1, ThreadAssumption DEF ClaimsOwned, Claims, Entitled
<1>7. CASE LockNoGetter(p)
  <2>1. /\ pc[p] = "lk_check" /\ ~Registered(p) /\ FreeRows = {}
        /\ pc' = [pc EXCEPT ![p] = "idle"]
        /\ inside' = [inside EXCEPT ![p] = @ \cup {mutex_type[p]}] /\ mutex_type' = mutex_type
    BY <1>7 DEF LockNoGetter, ReturnReleasing, Goto
  <2>2. g_beforelock
    BY <2>1
  <2> QED
    BY <1>1, <1>2, <2>1, <2>2 DEF ClaimsOwned, Claims, Entitled
<1>8. CASE UnlockStranger(p)
  <2>1. /\ pc[p] = "ul_raw" /\ pc' = [pc EXCEPT ![p] = "idle"]
        /\ inside' = inside /\ mutex_type' = mutex_type
    BY <1>8 DEF UnlockStranger, ReturnReleasing, Goto
  <2> QED
    BY <1>1, <1>2, <2>1 DEF ClaimsOwned, Claims, Entitled
<1> QED
  BY <1>3, <1>4, <1>5, <1>6, <1>7, <1>8

\* The steps that take a lockable mutex, which must be free.
LEMMA TakingStep ==
  ASSUME IInv, UNCHANGED g_beforelock, NEW p \in Thread, RawTake(p) \/ TakeMutex(p)
  PROVE  ClaimsOwned' /\ CallsPlaced' /\ StrangersRefused'
<1> DEFINE t == mutex_type[p]
<1> USE ThreadAssumption DEF IInv, Types, TypeOK, CallsPlaced, StrangersRefused, UnderGuard, WantsGuard
<1>1. /\ mmgetter' = mmgetter /\ mutex_type' = mutex_type
      /\ owner[t] = NoThread /\ owner' = [owner EXCEPT ![t] = p]
  BY DEF RawTake, TakeMutex
<1>2. FreeRows' = FreeRows /\ \A q \in Thread : Registered(q)' = Registered(q)
  BY <1>1, RowsKept
<1>3. t \in LockType /\ LockType \subseteq Mutex
  BY DEF CallsTyped, RawTake, TakeMutex, Mutex
<1>4. \A q \in Thread : Entitled(q) => ~Claims(q, t)
  BY <1>1, <1>3 DEF ClaimsOwned
<1>5. CASE RawTake(p)
  <2>1. /\ pc[p] = "raw_wait" /\ pc' = [pc EXCEPT ![p] = "idle"]
        /\ inside' = [inside EXCEPT ![p] = @ \cup {t}]
    BY <1>5 DEF RawTake, Goto
  <2> QED
    BY <1>1, <1>2, <1>3, <1>4, <2>1 DEF ClaimsOwned, Claims, Entitled
<1>6. CASE TakeMutex(p)
  <2>1. /\ pc[p] = "lk_wait" /\ pc' = [pc EXCEPT ![p] = "lk_back"] /\ inside' = inside
    BY <1>6 DEF TakeMutex, Goto
  <2> QED
    BY <1>1, <1>2, <1>3, <1>4, <2>1 DEF ClaimsOwned, Claims, Entitled
<1> QED
  BY <1>5, <1>6

\* The steps that give one back, which the caller owns.
LEMMA GivingStep ==
  ASSUME IInv, ~StrayUnlock, UNCHANGED g_beforelock, NEW p \in Thread,
         UnlockRaw(p) \/ \E t \in LockType : CallUnlock(p, t)
  PROVE  ClaimsOwned' /\ CallsPlaced' /\ StrangersRefused'
<1> USE ThreadAssumption DEF IInv, Types, TypeOK, CallsPlaced, StrangersRefused, UnderGuard, WantsGuard
<1>1. mmgetter' = mmgetter
  BY DEF UnlockRaw, CallUnlock
<1>2. FreeRows' = FreeRows /\ \A q \in Thread : Registered(q)' = Registered(q)
  BY <1>1, RowsKept
<1>3. LockType \subseteq Mutex
  BY DEF Mutex
<1>4. CASE UnlockRaw(p)
  <2> DEFINE t == mutex_type[p]
  <2>1. /\ pc[p] = "ul_raw" /\ pc' = [pc EXCEPT ![p] = "ul_clear"] /\ Registered(p)
        /\ inside' = inside /\ mutex_type' = mutex_type
    BY <1>4 DEF UnlockRaw, Goto
  <2>2. t \in LockType
    BY <2>1 DEF CallsTyped
  <2>3. owner[t] = p
    BY <2>1, <2>2 DEF ClaimsOwned, Claims, Entitled
  <2>4. owner' = [owner EXCEPT ![t] = NoThread]
    BY <1>4, <2>3 DEF UnlockRaw, UnlockedBy
  <2>5. \A q \in Thread \ {p} : Entitled(q) => ~Claims(q, t)
    BY <2>2, <2>3 DEF ClaimsOwned
  <2>6. t \notin inside[p]
    BY <2>1
  <2> QED
    BY <1>2, <1>3, <2>1, <2>2, <2>4, <2>5, <2>6 DEF ClaimsOwned, Claims, Entitled
<1>5. ASSUME NEW t \in LockType, CallUnlock(p, t), g_beforelock
      PROVE  ClaimsOwned' /\ CallsPlaced' /\ StrangersRefused'
  <2>1. /\ pc[p] = "idle" /\ pc' = [pc EXCEPT ![p] = "ul_guard"] /\ owner' = owner
        /\ t \in inside[p] /\ inside' = [inside EXCEPT ![p] = @ \ {t}]
        /\ mutex_type' = [mutex_type EXCEPT ![p] = t]
    BY <1>5 DEF CallUnlock, Goto
  <2> QED
    BY <1>2, <1>5, <2>1 DEF ClaimsOwned, Claims, Entitled
<1>6. ASSUME NEW t \in LockType, CallUnlock(p, t), ~g_beforelock
      PROVE  ClaimsOwned' /\ CallsPlaced' /\ StrangersRefused'
  <2>1. /\ pc[p] = "idle" /\ pc' = pc
        /\ t \in inside[p] /\ inside' = [inside EXCEPT ![p] = @ \ {t}]
        /\ mutex_type' = [mutex_type EXCEPT ![p] = t]
    BY <1>6 DEF CallUnlock
  <2>2. owner[t] = p
    BY <1>6, <2>1 DEF ClaimsOwned, Claims, Entitled
  <2>3. owner' = [owner EXCEPT ![t] = NoThread]
    BY <1>6, <2>2 DEF CallUnlock, UnlockedBy
  <2>4. \A q \in Thread \ {p} : ~Claims(q, t)
    BY <1>6, <2>2 DEF ClaimsOwned, Entitled
  <2> QED
    BY <1>2, <1>3, <1>6, <2>1, <2>3, <2>4 DEF ClaimsOwned, Claims, Entitled
<1> QED
  BY <1>4, <1>5, <1>6

\* The steps that write the table.
LEMMA TableStep ==
  ASSUME IInv, UNCHANGED g_beforelock, NEW p \in Thread, LockCheck(p) \/ LockRecord(p) \/ UnlockClear(p)
  PROVE  ClaimsOwned' /\ CallsPlaced' /\ StrangersRefused'
<1> USE DEF IInv, Types, TypeOK, CallsPlaced, StrangersRefused, UnderGuard, WantsGuard
<1>1. \A t \in LockType : owner'[t] = owner[t]
  BY DEF LockCheck, LockRecord, UnlockClear, ReturnReleasing, LockType, BEFORELOCK, Mutex
<1>2. CASE LockCheck(p)
  <2>1. /\ Registered(p)'
        /\ \A q \in Thread : Registered(q) => Registered(q)'
        /\ FreeRows = {} => FreeRows' = {} /\ \A q \in Thread : Registered(q)' = Registered(q)
    BY <1>2, RowTaken
  <2>2. /\ pc[p] = "lk_check"
        /\ pc' = [pc EXCEPT ![p] = "spin"] \/ pc' = [pc EXCEPT ![p] = "lk_wait"]
        /\ inside' = inside /\ mutex_type' = mutex_type
    BY <1>2 DEF LockCheck, Goto
  <2>3. g_beforelock
    BY <2>2
  <2>4. ASSUME NEW q \in Thread, NEW t \in LockType, Entitled(q)', Claims(q, t)'
        PROVE  owner'[t] = q
    <3>1. Claims(q, t)
      BY <2>2, <2>4 DEF Claims
    <3>2. Registered(q)
      <4> SUFFICES ASSUME ~Registered(q)
                   PROVE  FALSE
        OBVIOUS
      <4>1. FreeRows # {}
        BY <2>1, <2>3, <2>4 DEF Entitled
      <4>2. inside[q] # {} \/ pc[q] \in {"ul_guard", "ul_raw"}
        BY <3>1 DEF Claims
      <4> QED
        BY <2>3, <4>1, <4>2
    <3> QED
      BY <1>1, <3>1, <3>2 DEF ClaimsOwned, Entitled
  <2>5. CallsPlaced'
    BY <2>1, <2>2, <2>3
  <2>6. StrangersRefused'
    BY <2>1, <2>2
  <2> QED
    BY <2>4, <2>5, <2>6 DEF ClaimsOwned
<1>3. CASE LockRecord(p) \/ UnlockClear(p)
  <2>1. FreeRows' = FreeRows /\ \A q \in Thread : Registered(q)' = Registered(q)
    BY <1>3, RowsKept
  <2>2. CASE LockRecord(p)
    <3>1. /\ pc[p] = "lk_record" /\ pc' = [pc EXCEPT ![p] = "idle"]
          /\ inside' = [inside EXCEPT ![p] = @ \cup {mutex_type[p]}] /\ mutex_type' = mutex_type
      BY <2>2 DEF LockRecord, ReturnReleasing, Goto
    <3> QED
      BY <1>1, <2>1, <3>1 DEF ClaimsOwned, Claims, Entitled
  <2>3. CASE UnlockClear(p)
    <3>1. /\ pc[p] = "ul_clear" /\ pc' = [pc EXCEPT ![p] = "idle"]
          /\ inside' = inside /\ mutex_type' = mutex_type
      BY <2>3 DEF UnlockClear, ReturnReleasing, Goto
    <3> QED
      BY <1>1, <2>1, <3>1 DEF ClaimsOwned, Claims, Entitled
  <2> QED
    BY <1>3, <2>2, <2>3
<1> QED
  BY <1>2, <1>3

\* The strengthened invariant is inductive for callers that pair their calls.
LEMMA Inductive ==
  ASSUME ~StrayUnlock
  PROVE  Spec => []IInv
<1>1. Init => IInv
  <2>1. Init => Types
    BY SizeAssumption, ThreadAssumption
       DEF Init, Types, CallsTyped, TypeOK, Row, EmptyRow, Mutex, BEFORELOCK, PC, Getter
  <2> QED
    BY <2>1 DEF Init, IInv, ClaimsOwned, Claims, CallsPlaced, StrangersRefused, UnderGuard, WantsGuard
<1>2. IInv /\ [Next]_vars => IInv'
  <2> SUFFICES ASSUME IInv, [Next]_vars, UNCHANGED g_beforelock
               PROVE  IInv'
    BY ModeKept
  <2> DEFINE Rest == ClaimsOwned /\ CallsPlaced /\ StrangersRefused
  <2>1. Types'
    BY TypesStep DEF IInv
  <2>2. UNCHANGED vars => Rest'
    <3> SUFFICES ASSUME UNCHANGED vars
                 PROVE  Rest'
      OBVIOUS
    <3>1. FreeRows' = FreeRows /\ \A q \in Thread : Registered(q)' = Registered(q)
      BY RowsKept DEF IInv, vars
    <3> QED
      BY <3>1 DEF vars, IInv, ClaimsOwned, Claims, Entitled, CallsPlaced, StrangersRefused
  <2>3. Rest'
    <3> HIDE DEF Rest
    <3>1. \A p \in Thread : RefuseType(p) \/ Kill(p) => Rest'
      BY QuietStep DEF Rest
    <3>2. \A p \in Thread, t \in LockType : CallLock(p, t) \/ CallUnlock(p, t) => Rest'
      BY QuietStep, GivingStep DEF Rest
    <3>3. \A p \in Thread : RawTake(p) \/ TakeGuard(p) \/ TakeMutex(p) => Rest'
      BY QuietStep, TakingStep DEF Rest
    <3>4. \A p \in Thread : LockNoGetter(p) \/ LockCheck(p) \/ LockRecord(p) => Rest'
      BY QuietStep, TableStep DEF Rest
    <3>5. \A p \in Thread : UnlockStranger(p) \/ UnlockRaw(p) \/ UnlockClear(p) => Rest'
      BY QuietStep, GivingStep, TableStep DEF Rest
    <3> QED
      BY <2>2, <3>1, <3>2, <3>3, <3>4, <3>5, StepCases
  <2> QED
    BY <2>1, <2>3 DEF IInv
<1> QED
  BY <1>1, <1>2, PTL DEF Spec

\* A caller that has a row and is inside a type owns its pthread mutex, however
\* few rows the table has and however threads share identities.
THEOREM InsideMeansOwner ==
  ASSUME ~StrayUnlock
  PROVE  Spec => []InsideOwns
<1>1. IInv => InsideOwns
  BY DEF IInv, Types, TypeOK, ClaimsOwned, Claims, Entitled, InsideOwns
<1> QED
  BY <1>1, Inductive, PTL

----------------------------------------------------------------------------
(* Enough rows *)

\* Two rows in use are of two identities.
RowsDistinct == \A i, j \in Getter :
    mmgetter[i].is_used /\ mmgetter[j].is_used /\ mmgetter[i].id = mmgetter[j].id => i = j

LEMMA RowsDistinctStep ==
  ASSUME Types, RowsDistinct, [Next]_vars
  PROVE  RowsDistinct'
<1>1. ASSUME \A i \in Getter : /\ mmgetter'[i].id = mmgetter[i].id
                               /\ mmgetter'[i].is_used = mmgetter[i].is_used
      PROVE  RowsDistinct'
  BY <1>1 DEF RowsDistinct
<1>2. CASE UNCHANGED mmgetter
  BY <1>1, <1>2
<1>3. ASSUME NEW p \in Thread, LockCheck(p)
      PROVE  RowsDistinct'
  <2> DEFINE r == LockRow(p)
  <2>1. /\ r \in Getter
        /\ Registered(p) => r \in RowsOf(p)
    BY <1>3, LockRowInTable DEF LockCheck
  <2>2. \A i \in Getter \ {r} : mmgetter'[i] = mmgetter[i]
    BY <1>3, <2>1 DEF LockCheck, Requested, Types, TypeOK
  <2>3. mmgetter'[r].id = Key[p]
    <3>1. mmgetter[r] \in Row
      BY <2>1 DEF Types, TypeOK
    <3>2. mmgetter' = [mmgetter EXCEPT ![r] = [mmgetter[r] EXCEPT !.id = Key[p], !.is_used = TRUE,
                          !.is_waited = TRUE, !.wait_mutex_type = mutex_type[p]]]
      BY <1>3 DEF LockCheck, Requested
    <3> QED
      BY <2>1, <3>1, <3>2 DEF Types, TypeOK, Row
  <2>4. \A i \in Getter \ {r} : ~(mmgetter[i].is_used /\ mmgetter[i].id = Key[p])
    <3>1. CASE Registered(p)
      BY <2>1, <3>1 DEF RowsOf, RowsDistinct
    <3>2. CASE ~Registered(p)
      BY <3>2 DEF Registered, RowsOf
    <3> QED
      BY <3>1, <3>2
  <2> QED
    BY <2>1, <2>2, <2>3, <2>4 DEF RowsDistinct
<1>4. ASSUME NEW p \in Thread, LockRecord(p) \/ UnlockClear(p)
      PROVE  RowsDistinct'
  BY <1>1, <1>4, RowsIdentified
<1>5. UNCHANGED vars \/ (\E p \in Thread : LockCheck(p) \/ LockRecord(p) \/ UnlockClear(p))
      \/ UNCHANGED mmgetter
  BY DEF Next, Step, Call, RefuseType, CallLock, CallUnlock, RawTake, TakeGuard, LockNoGetter,
         TakeMutex, UnlockStranger, UnlockRaw, Kill
<1> QED
  BY <1>2, <1>3, <1>4, <1>5 DEF vars

\* With as many rows as there are identities nobody is refused one: a full table
\* has a row of every identity, for its rows are of distinct ones.
LEMMA NobodyRefused ==
  ASSUME Types, RowsDistinct, FreeRows = {},
         \A i \in Getter : mmgetter[i].is_used => mmgetter[i].id \in Ident,
         IsFiniteSet(Ident), Cardinality(Ident) <= MAX_MUTEX_GETTER_NUM,
         NEW p \in Thread
  PROVE  Registered(p)
<1> SUFFICES ASSUME ~Registered(p)
             PROVE  FALSE
  OBVIOUS
<1> DEFINE Others == Ident \ {Key[p]}
           idOf == [i \in Getter |-> mmgetter[i].id]
<1>1. \A i \in Getter : mmgetter[i].is_used
  BY DEF FreeRows
<1>2. \A i \in Getter : mmgetter[i].id \in Others
  BY <1>1 DEF Registered, RowsOf
<1>3. idOf \in Injection(Getter, Others)
  BY <1>1, <1>2 DEF Injection, IsInjective, RowsDistinct
<1>4. Key[p] \in Ident
  BY ThreadAssumption
<1>5. IsFiniteSet(Others) /\ Cardinality(Others) = Cardinality(Ident) - 1
  BY <1>4, FS_RemoveElement
<1>6. IsFiniteSet(Getter) /\ Cardinality(Getter) = MAX_MUTEX_GETTER_NUM
  <2>1. /\ IsFiniteSet(Getter)
        /\ Cardinality(Getter) = IF 0 > MAX_MUTEX_GETTER_NUM - 1 THEN 0
                                 ELSE (MAX_MUTEX_GETTER_NUM - 1) - 0 + 1
    BY SizeAssumption, FS_Interval DEF Getter
  <2> QED
    BY <2>1, SizeAssumption
<1>7. Cardinality(Getter) <= Cardinality(Others)
  BY <1>3, <1>5, FS_Injection
<1>8. Cardinality(Ident) \in Nat
  BY FS_CardinalityType
<1> QED
  BY <1>5, <1>6, <1>7, <1>8, SizeAssumption

\* A row in use was given an identity.
RowsNamed == \A i \in Getter : mmgetter[i].is_used => mmgetter[i].id \in Ident

LEMMA RowsNamedStep ==
  ASSUME Types, RowsNamed, [Next]_vars
  PROVE  RowsNamed'
<1>1. ASSUME NEW p \in Thread, LockCheck(p)
      PROVE  RowsNamed'
  <2>1. LockRow(p) \in Getter
    BY <1>1, LockRowInTable DEF LockCheck
  <2>2. mmgetter[LockRow(p)] \in Row /\ Key[p] \in Ident
    BY <2>1, ThreadAssumption DEF Types, TypeOK
  <2> QED
    BY <1>1, <2>1, <2>2 DEF LockCheck, Requested, RowsNamed, Types, TypeOK, Row
<1>2. ASSUME NEW p \in Thread, LockRecord(p) \/ UnlockClear(p)
      PROVE  RowsNamed'
  BY <1>2, RowsIdentified DEF RowsNamed
<1>3. (\E p \in Thread : LockCheck(p) \/ LockRecord(p) \/ UnlockClear(p)) \/ UNCHANGED mmgetter
  BY DEF Next, Step, Call, RefuseType, CallLock, CallUnlock, RawTake, TakeGuard, LockNoGetter,
         TakeMutex, UnlockStranger, UnlockRaw, Kill, vars
<1> QED
  BY <1>1, <1>2, <1>3 DEF RowsNamed

\* Two callers are never inside the same type, when callers pair their calls and
\* the table has a row for every identity; with MYMUTEX_NOUSE_BEFORELOCK too.
THEOREM Exclusion ==
  ASSUME ~StrayUnlock, IsFiniteSet(Ident), Cardinality(Ident) <= MAX_MUTEX_GETTER_NUM
  PROVE  Spec => []MutualExclusion
<1>1. Init => RowsDistinct /\ RowsNamed
  BY DEF Init, RowsDistinct, RowsNamed, EmptyRow
<1>2. IInv /\ RowsDistinct /\ RowsNamed /\ [Next]_vars => RowsDistinct' /\ RowsNamed'
  BY RowsDistinctStep, RowsNamedStep DEF IInv
<1>3. IInv /\ RowsDistinct /\ RowsNamed => MutualExclusion
  <2> SUFFICES ASSUME IInv, RowsDistinct, RowsNamed,
                      NEW p \in Thread, NEW q \in Thread, NEW t \in inside[p] \cap inside[q]
               PROVE  p = q
    BY DEF MutualExclusion
  <2>1. t \in LockType
    BY DEF IInv, Types, TypeOK
  <2>2. Entitled(p) /\ Entitled(q)
    BY NobodyRefused DEF IInv, StrangersRefused, Entitled, RowsNamed
  <2> QED
    BY <2>1, <2>2 DEF IInv, ClaimsOwned, Claims
<1>4. Spec => []IInv
  BY Inductive
<1> QED
  BY <1>1, <1>2, <1>3, <1>4, PTL DEF Spec

\* A full table costs exclusion only to those it refuses: who is inside a type with
\* somebody else has found every row taken, or the other has, for every number of
\* rows and threads, whoever dies, and with BEFORELOCK in use or not.
THEOREM FullTableExclusion ==
  ASSUME ~StrayUnlock
  PROVE  Spec => []OnlyRefusedIntrude
<1>1. IInv => OnlyRefusedIntrude
  <2> SUFFICES ASSUME IInv, NEW p \in Thread, NEW q \in Thread, p # q,
                      NEW t \in inside[p] \cap inside[q]
               PROVE  /\ \A i \in Getter : mmgetter[i].is_used
                      /\ ~Registered(p) \/ ~Registered(q)
    BY DEF OnlyRefusedIntrude
  <2>1. t \in LockType
    BY DEF IInv, Types, TypeOK
  <2>2. ~(Entitled(p) /\ Entitled(q))
    BY <2>1 DEF IInv, ClaimsOwned, Claims
  <2>3. g_beforelock /\ (~Registered(p) \/ ~Registered(q))
    BY <2>2 DEF Entitled
  <2>4. FreeRows = {}
    BY <2>3 DEF IInv, StrangersRefused
  <2> QED
    BY <2>3, <2>4 DEF FreeRows
<1>2. Spec => []IInv
  BY Inductive
<1> QED
  BY <1>1, <1>2, PTL

----------------------------------------------------------------------------
(* The mutex over the table *)

\* BEFORELOCK is with nobody but a thread in a stretch under it: every path of
\* the calls, the early returns too, gives it back (455, 539-545, 617, 311).
THEOREM GuardGivenBack == Spec => []GuardNotKept
<1>1. Init => Types /\ GuardNotKept
  BY SizeAssumption, ThreadAssumption
     DEF Init, Types, CallsTyped, TypeOK, Row, EmptyRow, Mutex, BEFORELOCK, PC, Getter, GuardNotKept
<1>2. ASSUME Types, GuardNotKept, [Next]_vars
      PROVE  GuardNotKept'
  <2> USE ThreadAssumption DEF Types, TypeOK, CallsTyped, GuardNotKept, BEFORELOCK, Mutex, LockType
  <2>1. UNCHANGED vars => GuardNotKept'
    BY <1>2 DEF vars
  <2>2. ASSUME NEW p \in Thread, RefuseType(p) \/ Kill(p)
        PROVE  GuardNotKept'
    BY <1>2, <2>2 DEF RefuseType, Kill, Goto
  <2>3. ASSUME NEW p \in Thread, NEW t \in LockType, CallLock(p, t) \/ CallUnlock(p, t)
        PROVE  GuardNotKept'
    <3>1. owner'[BEFORELOCK] = owner[BEFORELOCK] /\ pc[p] = "idle"
      BY <1>2, <2>3 DEF CallLock, CallUnlock
    <3>2. \A q \in Thread \ {p} : pc'[q] = pc[q]
      BY <1>2, <2>3 DEF CallLock, CallUnlock, Goto
    <3> QED
      BY <1>2, <3>1, <3>2 DEF UnderGuard
  <2>4. ASSUME NEW p \in Thread, RawTake(p) \/ TakeMutex(p)
        PROVE  GuardNotKept'
    <3>1. mutex_type[p] \in LockType /\ pc[p] \in {"raw_wait", "lk_wait"}
      BY <1>2, <2>4 DEF RawTake, TakeMutex
    <3>2. owner'[BEFORELOCK] = owner[BEFORELOCK] /\ \A q \in Thread \ {p} : pc'[q] = pc[q]
      BY <1>2, <2>4, <3>1 DEF RawTake, TakeMutex, Goto
    <3> QED
      BY <1>2, <3>1, <3>2 DEF UnderGuard
  <2>5. ASSUME NEW p \in Thread, TakeGuard(p)
        PROVE  GuardNotKept'
    BY <1>2, <2>5 DEF TakeGuard, Goto, WantsGuard, UnderGuard
  <2>6. ASSUME NEW p \in Thread,
               LockNoGetter(p) \/ LockRecord(p) \/ UnlockStranger(p) \/ UnlockClear(p)
        PROVE  GuardNotKept'
    <3>1. owner'[BEFORELOCK] = NoThread
      BY <1>2, <2>6 DEF LockNoGetter, LockRecord, UnlockStranger, UnlockClear, ReturnReleasing
    <3> QED
      BY <3>1
  <2>7. ASSUME NEW p \in Thread, LockCheck(p)
        PROVE  GuardNotKept'
    <3>1. \/ pc' = [pc EXCEPT ![p] = "spin"] /\ owner' = owner
          \/ owner'[BEFORELOCK] = NoThread
      BY <1>2, <2>7 DEF LockCheck, Goto
    <3> QED
      BY <1>2, <3>1 DEF UnderGuard
  <2>8. ASSUME NEW p \in Thread, UnlockRaw(p)
        PROVE  GuardNotKept'
    <3>1. mutex_type[p] \in LockType
      BY <1>2, <2>8 DEF UnlockRaw
    <3>2. owner'[BEFORELOCK] = owner[BEFORELOCK] /\ pc' = [pc EXCEPT ![p] = "ul_clear"]
      BY <1>2, <2>8, <3>1 DEF UnlockRaw, Goto
    <3> QED
      BY <1>2, <3>2 DEF UnderGuard
  <2> QED
    BY <1>2, <2>1, <2>2, <2>3, <2>4, <2>5, <2>6, <2>7, <2>8 DEF Next, Step, Call
<1>3. Types /\ [Next]_vars => Types'
  BY TypesStep
<1> QED
  BY <1>1, <1>2, <1>3, PTL DEF Spec

----------------------------------------------------------------------------
(* Wait marks *)

Waiting == {"lk_wait", "lk_back", "lk_record", "spin"}

\* A call that has found or taken its row goes on with a row of its own.
IndexOwn == \A p \in Thread :
    pc[p] \in {"lk_wait", "lk_back", "lk_record", "ul_clear", "spin"} => mmindex[p] \in RowsOf(p)

WInv == Types /\ RowsDistinct /\ IndexOwn /\ RowsShowWaits

\* A step of p that leaves the table and p's being in wait or not alone.
LEMMA TableKept ==
  ASSUME WInv, NEW p \in Thread, UNCHANGED mmgetter,
         \A q \in Thread \ {p} : UNCHANGED <<pc[q], mutex_type[q], mmindex[q]>>,
         \/ pc'[p] = "dead"
         \/ /\ pc[p] \in Waiting <=> pc'[p] \in Waiting
            /\ pc[p] # "dead"
            /\ pc'[p] \in Waiting => mutex_type'[p] = mutex_type[p]
            /\ pc'[p] \in {"lk_wait", "lk_back", "lk_record", "ul_clear", "spin"}
                   => mmindex'[p] \in RowsOf(p)
  PROVE  IndexOwn' /\ RowsShowWaits'
<1>1. \A q \in Thread : RowsOf(q)' = RowsOf(q)
  BY DEF RowsOf
<1>2. IndexOwn'
  BY <1>1 DEF WInv, IndexOwn
<1>3. RowsShowWaits'
  BY <1>1 DEF WInv, RowsShowWaits, Waiting
<1> QED
  BY <1>2, <1>3

\* The steps that write no row.
LEMMA OutsideTable ==
  ASSUME WInv, NEW p \in Thread,
         \/ RefuseType(p) \/ Kill(p) \/ RawTake(p) \/ TakeGuard(p) \/ TakeMutex(p)
         \/ LockNoGetter(p) \/ UnlockStranger(p) \/ UnlockRaw(p)
         \/ \E t \in LockType : CallLock(p, t) \/ CallUnlock(p, t)
  PROVE  IndexOwn' /\ RowsShowWaits'
<1> USE DEF WInv, Types, TypeOK, Waiting, WantsGuard
<1>1. ASSUME pc[p] \in {"idle", "raw_wait", "lk_guard", "lk_check", "ul_guard", "ul_raw"},
             pc'[p] \in {"idle", "raw_wait", "lk_guard", "lk_check", "ul_guard", "ul_raw"},
             UNCHANGED mmgetter,
             \A q \in Thread \ {p} : UNCHANGED <<pc[q], mutex_type[q], mmindex[q]>>
      PROVE  IndexOwn' /\ RowsShowWaits'
  BY <1>1, TableKept
<1>2. CASE \/ RefuseType(p) \/ RawTake(p) \/ LockNoGetter(p) \/ UnlockStranger(p)
           \/ \E t \in LockType : CallLock(p, t) \/ CallUnlock(p, t)
  BY <1>1, <1>2 DEF RefuseType, RawTake, LockNoGetter, UnlockStranger, ReturnReleasing, Goto,
                    CallLock, CallUnlock
<1>3. CASE Kill(p)
  BY <1>3, TableKept DEF Kill, Goto
<1>4. CASE TakeGuard(p)
  <2>1. /\ UNCHANGED <<mmgetter, mutex_type, mmindex>>
        /\ \A q \in Thread \ {p} : pc'[q] = pc[q]
    BY <1>4 DEF TakeGuard, Goto
  <2>2. \/ pc[p] = "lk_guard" /\ pc'[p] = "lk_check"
        \/ pc[p] = "lk_back" /\ pc'[p] = "lk_record"
        \/ pc[p] = "ul_guard" /\ pc'[p] = "ul_raw"
    BY <1>4, Zenon DEF TakeGuard, Goto
  <2> QED
    BY <1>1, <2>1, <2>2, TableKept DEF IndexOwn
<1>5. CASE TakeMutex(p)
  BY <1>5, TableKept DEF TakeMutex, Goto, IndexOwn
<1>6. CASE UnlockRaw(p)
  <2>1. RowsOf(p) \in SUBSET Getter /\ RowsOf(p) # {}
    BY <1>6 DEF UnlockRaw, Registered, RowsOf
  <2>2. mmindex'[p] \in RowsOf(p)
    BY <1>6, <2>1, MinMaxOfRows DEF UnlockRaw
  <2> QED
    BY <1>6, <2>2, TableKept DEF UnlockRaw, Goto
<1> QED
  BY <1>2, <1>3, <1>4, <1>5, <1>6

\* The row that bears a request is the only one of its thread, and nobody else's;
\* what it holds is left as it was.
LEMMA RequestRow ==
  ASSUME WInv, Key \in Injection(Thread, Ident), NEW p \in Thread, LockCheck(p)
  PROVE  LET r == LockRow(p)
         IN  /\ r \in Getter /\ RowsOf(p) = (IF Registered(p) THEN {r} ELSE {})
             /\ ~Registered(p) => r \in FreeRows
             /\ \A i \in Getter \ {r} : mmgetter'[i] = mmgetter[i]
             /\ mmgetter'[r].is_used
             /\ mmgetter'[r].is_waited /\ mmgetter'[r].wait_mutex_type = mutex_type[p]
             /\ mmgetter'[r].get_mutex_type = mmgetter[r].get_mutex_type
             /\ RowsOf(p)' = {r}
             /\ \A q \in Thread \ {p} : RowsOf(q)' = RowsOf(q) /\ r \notin RowsOf(q)
<1> DEFINE r == LockRow(p)
<1>1. /\ r \in Getter
      /\ Registered(p) => r \in RowsOf(p)
      /\ ~Registered(p) => r \in FreeRows
  BY LockRowInTable DEF LockCheck
<1>2. /\ \A i \in Getter \ {r} : mmgetter'[i] = mmgetter[i]
      /\ mmgetter'[r].id = Key[p] /\ mmgetter'[r].is_used
      /\ mmgetter'[r].is_waited /\ mmgetter'[r].wait_mutex_type = mutex_type[p]
      /\ mmgetter'[r].get_mutex_type = mmgetter[r].get_mutex_type
  <2>1. mmgetter[r] \in Row
    BY <1>1 DEF WInv, Types, TypeOK
  <2>2. mmgetter' = [mmgetter EXCEPT ![r] = [mmgetter[r] EXCEPT !.id = Key[p], !.is_used = TRUE,
                        !.is_waited = TRUE, !.wait_mutex_type = mutex_type[p]]]
    BY DEF LockCheck, Requested
  <2> QED
    BY <1>1, <2>1, <2>2 DEF WInv, Types, TypeOK, Row
<1> HIDE DEF r
<1>3. \A i \in Getter \ {r} : ~(mmgetter[i].is_used /\ mmgetter[i].id = Key[p])
  <2>1. CASE Registered(p)
    BY <1>1, <2>1 DEF RowsOf, RowsDistinct, WInv
  <2>2. CASE ~Registered(p)
    BY <2>2 DEF Registered, RowsOf
  <2> QED
    BY <2>1, <2>2
<1>4. RowsOf(p) = (IF Registered(p) THEN {r} ELSE {}) /\ RowsOf(p)' = {r}
  BY <1>1, <1>2, <1>3 DEF RowsOf, Registered
<1>5. ASSUME NEW q \in Thread \ {p}
      PROVE  RowsOf(q)' = RowsOf(q) /\ r \notin RowsOf(q)
  <2>1. Key[q] # Key[p]
    BY <1>5 DEF Injection, IsInjective
  <2> QED
    BY <1>1, <1>2, <2>1 DEF RowsOf, FreeRows
<1> QED
  BY <1>1, <1>2, <1>4, <1>5 DEF r

\* A request is shown by the row of its thread, and no other row is touched.
LEMMA RequestShown ==
  ASSUME WInv, Key \in Injection(Thread, Ident), NEW p \in Thread, LockCheck(p)
  PROVE  IndexOwn' /\ RowsShowWaits'
<1> DEFINE r == LockRow(p)
<1>1. /\ \A i \in Getter \ {r} : mmgetter'[i] = mmgetter[i]
      /\ mmgetter'[r].is_waited /\ mmgetter'[r].wait_mutex_type = mutex_type[p]
      /\ RowsOf(p)' = {r}
      /\ \A q \in Thread \ {p} : RowsOf(q)' = RowsOf(q) /\ r \notin RowsOf(q)
  BY RequestRow
<1>2. /\ pc[p] = "lk_check" /\ pc'[p] \in {"spin", "lk_wait"}
      /\ mutex_type' = mutex_type /\ mmindex' = [mmindex EXCEPT ![p] = r]
      /\ \A q \in Thread \ {p} : pc'[q] = pc[q]
  BY DEF LockCheck, Goto, WInv, Types, TypeOK
<1>3. IndexOwn'
  BY <1>1, <1>2 DEF WInv, IndexOwn, Types, TypeOK
<1>4. RowsShowWaits'
  <2>1. ASSUME NEW q \in Thread \ {p}, pc'[q] # "dead", NEW i \in RowsOf(q)
        PROVE  mmgetter'[i] = mmgetter[i] /\ pc'[q] = pc[q] /\ mutex_type'[q] = mutex_type[q]
    BY <1>1, <1>2, <2>1 DEF RowsOf
  <2> QED
    BY <1>1, <1>2, <2>1 DEF WInv, RowsShowWaits
<1> QED
  BY <1>3, <1>4

\* The record of an acquisition ends the wait; the wiping of a type is none.
LEMMA RecordShown ==
  ASSUME WInv, Key \in Injection(Thread, Ident), NEW p \in Thread,
         LockRecord(p) \/ UnlockClear(p)
  PROVE  IndexOwn' /\ RowsShowWaits'
<1> DEFINE r == mmindex[p]
<1>1. r \in RowsOf(p) /\ mmgetter[r] \in Row /\ mutex_type[p] \in Mutex
  BY DEF WInv, IndexOwn, LockRecord, UnlockClear, Types, TypeOK
<1>2. RowsOf(p) = {r}
  BY <1>1 DEF RowsOf, RowsDistinct, WInv
<1>3. \A q \in Thread : RowsOf(q)' = RowsOf(q)
  BY RowsIdentified DEF RowsOf, WInv
<1>4. \A q \in Thread \ {p} : r \notin RowsOf(q)
  BY <1>1 DEF RowsOf, Injection, IsInjective
<1>5. \A i \in Getter \ {r} : mmgetter'[i] = mmgetter[i]
  BY DEF LockRecord, UnlockClear, WInv, Types, TypeOK
<1>6. ~mmgetter'[r].is_waited /\ mmgetter'[r].wait_mutex_type = 0
  <2>1. CASE LockRecord(p)
    <3>1. mmgetter'[r] = Recorded(mmgetter[r], mutex_type[p])
      BY <1>1, <2>1 DEF LockRecord, WInv, Types, TypeOK
    <3> QED
      BY <1>1, <3>1 DEF Recorded, Row
  <2>2. CASE UnlockClear(p)
    <3>1. mmgetter'[r] = Cleared(mmgetter[r], mutex_type[p])
      BY <1>1, <2>2 DEF UnlockClear, WInv, Types, TypeOK
    <3>2. ~mmgetter[r].is_waited /\ mmgetter[r].wait_mutex_type = 0
      BY <1>1, <2>2 DEF UnlockClear, WInv, RowsShowWaits
    <3> QED
      BY <1>1, <3>1, <3>2 DEF Cleared, Row
  <2> QED
    BY <2>1, <2>2
<1>7. /\ pc'[p] = "idle" /\ UNCHANGED <<mutex_type, mmindex>>
      /\ \A q \in Thread \ {p} : pc'[q] = pc[q]
  BY DEF LockRecord, UnlockClear, ReturnReleasing, Goto, WInv, Types, TypeOK
<1>8. IndexOwn'
  BY <1>3, <1>7 DEF WInv, IndexOwn
<1>9. RowsShowWaits'
  <2>1. \A q \in Thread \ {p} : \A i \in RowsOf(q) : mmgetter'[i] = mmgetter[i]
    BY <1>4, <1>5 DEF RowsOf
  <2> QED
    BY <1>2, <1>3, <1>6, <1>7, <2>1 DEF WInv, RowsShowWaits
<1> QED
  BY <1>8, <1>9

LEMMA WaitsAlways ==
  ASSUME Key \in Injection(Thread, Ident)
  PROVE  Spec => []WInv
<1>1. Init => WInv
  BY SizeAssumption, ThreadAssumption
     DEF Init, WInv, Types, CallsTyped, TypeOK, Row, EmptyRow, Mutex, BEFORELOCK, PC, Getter,
         RowsDistinct, IndexOwn, RowsShowWaits, RowsOf
<1>2. ASSUME WInv, [Next]_vars
      PROVE  WInv'
  <2>1. Types' /\ RowsDistinct'
    BY <1>2, TypesStep, RowsDistinctStep DEF WInv
  <2>2. UNCHANGED vars => IndexOwn' /\ RowsShowWaits'
    BY <1>2 DEF vars, WInv, IndexOwn, RowsShowWaits, RowsOf
  <2> QED
    BY <1>2, <2>1, <2>2, OutsideTable, RequestShown, RecordShown DEF WInv, Next, Step, Call
<1> QED
  BY <1>1, <1>2, PTL DEF Spec

\* When no two threads share an identity, the rows tell who waits for what, to
\* the step: what isDeadLock and isLockJyunbanOk read there is so (78-124).
THEOREM WaitsShown ==
  ASSUME Key \in Injection(Thread, Ident)
  PROVE  Spec => []RowsShowWaits
<1>1. WInv => RowsShowWaits
  BY DEF WInv
<1> QED
  BY <1>1, WaitsAlways, PTL

----------------------------------------------------------------------------
(* The table and the owners *)

\* A stretch under BEFORELOCK is run by the thread that owns it.
GuardHeld == \A p \in Thread : pc[p] \in UnderGuard => owner[BEFORELOCK] = p

\* The gaps: an acquisition the table does not show yet, a release it still does.
Unrecorded(p, t) == pc[p] \in {"lk_back", "lk_record"} /\ mutex_type[p] = t
Uncleared(p, t) == pc[p] = "ul_clear" /\ mutex_type[p] = t

Recording(t) == {i \in Getter : t \in Held(mmgetter[i])}

OwnersRecorded == \A t \in LockType, p \in Thread :
    owner[t] = p => Unrecorded(p, t) \/ \E i \in RowsOf(p) : t \in Held(mmgetter[i])

RecordsOwned == \A i \in Getter : \A t \in Held(mmgetter[i]) : \E p \in Thread :
    /\ i \in RowsOf(p)
    /\ Uncleared(p, t) \/ (owner[t] = p /\ ~Unrecorded(p, t))

\* Who has taken a mutex whose release is not cleared yet waits for BEFORELOCK.
UnclearedReused == \A p \in Thread : pc[p] = "ul_clear" =>
    /\ mutex_type[p] \in Held(mmgetter[mmindex[p]])
    /\ \A q \in Thread :
          owner[mutex_type[p]] = q => pc[q] = "lk_back" /\ mutex_type[q] = mutex_type[p]

\* A row records a type in one slot.
OncePerRow == \A i \in Getter : \A m, n \in Slot :
    /\ mmgetter[i].get_mutex_type[m] = mmgetter[i].get_mutex_type[n]
    /\ mmgetter[i].get_mutex_type[m] # 0
    => m = n

CountsRows == \A t \in LockType :
    mutex_lock_count[t] = IF Recording(t) = {} THEN 0 ELSE 1

OwnersShown ==
    GuardHeld /\ OwnersRecorded /\ RecordsOwned /\ UnclearedReused /\ OncePerRow /\ CountsRows

OInv == IInv /\ WInv /\ g_beforelock /\ OwnersShown

\* What a table with enough slots has room for.
LEMMA RoomForType ==
  ASSUME MAX_MUTEX_NUM >= MYMUTEX_TYPE_MAX - 1,
         NEW row \in Row, NEW t \in LockType, t \notin Held(row),
         \A m, n \in Slot : row.get_mutex_type[m] = row.get_mutex_type[n]
                            /\ row.get_mutex_type[m] # 0 => m = n
  PROVE  {m \in Slot : row.get_mutex_type[m] = 0} # {}
<1> SUFFICES ASSUME \A m \in Slot : row.get_mutex_type[m] # 0
             PROVE  FALSE
  OBVIOUS
<1> DEFINE Others == LockType \ {t}
           typeOf == [m \in Slot |-> row.get_mutex_type[m]]
<1>1. \A m \in Slot : row.get_mutex_type[m] \in Others
  BY DEF Held, Row, Mutex, BEFORELOCK
<1>2. typeOf \in Injection(Slot, Others)
  BY <1>1 DEF Injection, IsInjective
<1>3. IsFiniteSet(LockType) /\ Cardinality(LockType) <= MYMUTEX_TYPE_MAX - 1
      /\ Cardinality(LockType) \in Nat
  <2>1. /\ IsFiniteSet(LockType)
        /\ Cardinality(LockType) = IF 1 > MYMUTEX_TYPE_MAX - 1 THEN 0
                                   ELSE (MYMUTEX_TYPE_MAX - 1) - 1 + 1
    BY SizeAssumption, FS_Interval DEF LockType
  <2> QED
    BY <2>1, SizeAssumption
<1>4. IsFiniteSet(Others) /\ Cardinality(Others) = Cardinality(LockType) - 1
  BY <1>3, FS_RemoveElement
<1>5. IsFiniteSet(Slot) /\ Cardinality(Slot) = MAX_MUTEX_NUM
  <2>1. /\ IsFiniteSet(Slot)
        /\ Cardinality(Slot) = IF 0 > MAX_MUTEX_NUM - 1 THEN 0 ELSE (MAX_MUTEX_NUM - 1) - 0 + 1
    BY SizeAssumption, FS_Interval DEF Slot
  <2> QED
    BY <2>1, SizeAssumption
<1>6. Cardinality(Slot) <= Cardinality(Others)
  BY <1>2, <1>4, FS_Injection
<1> QED
  BY <1>3, <1>4, <1>5, <1>6, SizeAssumption

\* What the two rewritings do to the types a row records.
LEMMA RecordedHeld ==
  ASSUME NEW row \in Row, NEW t \in LockType, t \notin Held(row),
         {m \in Slot : row.get_mutex_type[m] = 0} # {},
         \A m, n \in Slot : row.get_mutex_type[m] = row.get_mutex_type[n]
                            /\ row.get_mutex_type[m] # 0 => m = n
  PROVE  /\ Held(Recorded(row, t)) = Held(row) \cup {t}
         /\ \A m, n \in Slot :
               Recorded(row, t).get_mutex_type[m] = Recorded(row, t).get_mutex_type[n]
               /\ Recorded(row, t).get_mutex_type[m] # 0 => m = n
<1> DEFINE empty == {m \in Slot : row.get_mutex_type[m] = 0}
           e == Min(empty)
           new == [row.get_mutex_type EXCEPT ![e] = t]
<1>1. e \in empty
  BY MinOfSlots
<1>2. row.get_mutex_type \in [Slot -> Mutex] /\ t # 0
  BY SizeAssumption DEF Row, LockType
<1>3. Recorded(row, t).get_mutex_type = new
  BY DEF Recorded, Row
<1> HIDE DEF e
<1>4. /\ e \in Slot /\ row.get_mutex_type[e] = 0 /\ new[e] = t
      /\ \A m \in Slot \ {e} : new[m] = row.get_mutex_type[m]
  BY <1>1, <1>2
<1> HIDE DEF new
<1>5. Held(Recorded(row, t)) = Held(row) \cup {t}
  BY <1>2, <1>3, <1>4 DEF Held
<1>6. \A m \in Slot : row.get_mutex_type[m] # t
  BY <1>2 DEF Held
<1> QED
  BY <1>3, <1>4, <1>5, <1>6

LEMMA ClearedHeld ==
  ASSUME NEW row \in Row, NEW t \in LockType,
         \A m, n \in Slot : row.get_mutex_type[m] = row.get_mutex_type[n]
                            /\ row.get_mutex_type[m] # 0 => m = n
  PROVE  /\ Held(Cleared(row, t)) = Held(row) \ {t}
         /\ \A m, n \in Slot :
               Cleared(row, t).get_mutex_type[m] = Cleared(row, t).get_mutex_type[n]
               /\ Cleared(row, t).get_mutex_type[m] # 0 => m = n
<1> DEFINE new == [m \in Slot |-> IF row.get_mutex_type[m] = t THEN 0 ELSE row.get_mutex_type[m]]
<1>1. Cleared(row, t).get_mutex_type = new
  BY DEF Cleared, Row
<1>2. \A m \in Slot : new[m] = IF row.get_mutex_type[m] = t THEN 0 ELSE row.get_mutex_type[m]
  OBVIOUS
<1> HIDE DEF new
<1>3. t # 0
  BY SizeAssumption DEF LockType
<1>4. Held(Cleared(row, t)) = Held(row) \ {t}
  BY <1>1, <1>2, <1>3 DEF Held
<1> QED
  BY <1>1, <1>2, <1>3, <1>4

\* A type is recorded by one row, and whoever owns it unrecorded finds it in none.
LEMMA RecordedOnce ==
  ASSUME OInv, NEW t \in LockType
  PROVE  /\ \A i, j \in Recording(t) : i = j
         /\ \A p \in Thread : owner[t] = p /\ pc[p] = "lk_record" /\ mutex_type[p] = t
                => Recording(t) = {}
         /\ \A p \in Thread : Uncleared(p, t) => Recording(t) = {mmindex[p]}
<1> USE DEF OInv, OwnersShown
<1>1. ASSUME NEW p \in Thread, NEW q \in Thread, pc[p] \in UnderGuard, pc[q] \in UnderGuard
      PROVE  p = q
  BY <1>1 DEF GuardHeld
<1>2. ASSUME NEW p \in Thread, NEW i \in RowsOf(p), NEW j \in RowsOf(p)
      PROVE  i = j
  BY <1>2 DEF RowsOf, RowsDistinct, WInv
<1>3. ASSUME NEW i \in Recording(t), NEW j \in Recording(t)
      PROVE  i = j
  <2>1. PICK p \in Thread : i \in RowsOf(p) /\ (Uncleared(p, t) \/ (owner[t] = p /\ ~Unrecorded(p, t)))
    BY <1>3 DEF Recording, RecordsOwned
  <2>2. PICK q \in Thread : j \in RowsOf(q) /\ (Uncleared(q, t) \/ (owner[t] = q /\ ~Unrecorded(q, t)))
    BY <1>3 DEF Recording, RecordsOwned
  <2>3. p = q
    <3>1. CASE Uncleared(p, t) /\ Uncleared(q, t)
      BY <1>1, <3>1 DEF Uncleared, UnderGuard
    <3>2. ~(Uncleared(p, t) /\ owner[t] = q /\ ~Unrecorded(q, t))
      BY DEF Uncleared, Unrecorded, UnclearedReused
    <3>3. ~(Uncleared(q, t) /\ owner[t] = p /\ ~Unrecorded(p, t))
      BY DEF Uncleared, Unrecorded, UnclearedReused
    <3> QED
      BY <2>1, <2>2, <3>1, <3>2, <3>3
  <2> QED
    BY <1>2, <2>1, <2>2, <2>3
<1>4. ASSUME NEW p \in Thread, owner[t] = p, pc[p] = "lk_record", mutex_type[p] = t, Recording(t) # {}
      PROVE  FALSE
  <2>1. PICK i \in Recording(t) : TRUE
    BY <1>4
  <2>2. PICK q \in Thread : Uncleared(q, t) \/ (owner[t] = q /\ ~Unrecorded(q, t))
    BY <2>1 DEF Recording, RecordsOwned
  <2>3. ~(owner[t] = q /\ ~Unrecorded(q, t))
    BY <1>4 DEF Unrecorded
  <2>4. q = p
    BY <1>1, <1>4, <2>2, <2>3 DEF Uncleared, UnderGuard
  <2> QED
    BY <1>4, <2>2, <2>3, <2>4 DEF Uncleared
<1>5. ASSUME NEW p \in Thread, Uncleared(p, t)
      PROVE  Recording(t) = {mmindex[p]}
  <2>1. mmindex[p] \in Getter /\ t \in Held(mmgetter[mmindex[p]])
    BY <1>5 DEF Uncleared, UnclearedReused, WInv, Types, TypeOK
  <2>2. mmindex[p] \in Recording(t)
    BY <2>1 DEF Recording
  <2> QED
    BY <1>3, <2>2
<1> QED
  BY <1>3, <1>4, <1>5

\* What holds of the calls in a state of OInv, as the steps below use it.
LEMMA CallsInOrder ==
  ASSUME OInv
  PROVE  /\ TypeOK /\ CallsTyped
         /\ \A p \in Thread : pc[p] = "ul_raw" /\ Registered(p) => owner[mutex_type[p]] = p
         /\ \A p \in Thread : pc[p] \in {"lk_back", "lk_record"} => owner[mutex_type[p]] = p
         /\ \A p \in Thread : pc[p] # "raw_wait"
         /\ \A p, q \in Thread : pc[p] \in UnderGuard /\ pc[q] \in UnderGuard => p = q
<1> USE DEF OInv, IInv
<1>1. TypeOK /\ CallsTyped
  BY DEF Types
<1>2. ASSUME NEW p \in Thread, pc[p] \in {"lk_back", "lk_record"} \/ (pc[p] = "ul_raw" /\ Registered(p))
      PROVE  owner[mutex_type[p]] = p
  <2>1. Registered(p) /\ mutex_type[p] \in LockType
    BY <1>1, <1>2 DEF CallsPlaced, CallsTyped
  <2>2. Claims(p, mutex_type[p])
    BY <1>2 DEF Claims
  <2> QED
    BY <2>1, <2>2 DEF ClaimsOwned, Entitled
<1>3. \A p \in Thread : pc[p] # "raw_wait"
  BY DEF CallsPlaced
<1>4. \A p, q \in Thread : pc[p] \in UnderGuard /\ pc[q] \in UnderGuard => p = q
  BY DEF OwnersShown, GuardHeld
<1> QED
  BY <1>1, <1>2, <1>3, <1>4

\* The steps that neither write the table nor take or give a lockable mutex.
LEMMA ToldQuietly ==
  ASSUME OInv, UNCHANGED g_beforelock, ~StrayUnlock, NEW p \in Thread,
         \/ RefuseType(p) \/ TakeGuard(p) \/ LockNoGetter(p) \/ UnlockStranger(p)
         \/ \E t \in LockType : CallLock(p, t) \/ CallUnlock(p, t)
  PROVE  OwnersShown'
<1>0. TypeOK /\ CallsTyped /\ \A q \in Thread : pc[q] # "raw_wait"
  BY CallsInOrder
<1> USE DEF TypeOK
<1>1. UNCHANGED <<mmgetter, mmindex, mutex_lock_count>> /\ \A t \in LockType : owner'[t] = owner[t]
  BY <1>0 DEF RefuseType, TakeGuard, CallLock, CallUnlock, LockNoGetter, UnlockStranger, ReturnReleasing,
         LockType, BEFORELOCK, Mutex, OInv
<1>2. \A q \in Thread \ {p} : UNCHANGED <<pc[q], mutex_type[q]>>
  BY <1>0 DEF RefuseType, TakeGuard, CallLock, CallUnlock, LockNoGetter, UnlockStranger, ReturnReleasing, Goto
<1>3. /\ pc[p] \notin {"lk_record", "ul_clear"} /\ pc'[p] \notin {"ul_clear", "lk_back"}
      /\ pc[p] = "lk_back" <=> pc'[p] = "lk_record"
      /\ pc[p] = "lk_back" => mutex_type'[p] = mutex_type[p] /\ owner[BEFORELOCK] = NoThread
  <2>1. CASE TakeGuard(p)
    <3>1. UNCHANGED mutex_type /\ owner[BEFORELOCK] = NoThread
      BY <2>1 DEF TakeGuard
    <3>2. \/ pc[p] = "lk_guard" /\ pc'[p] = "lk_check"
          \/ pc[p] = "lk_back" /\ pc'[p] = "lk_record"
          \/ pc[p] = "ul_guard" /\ pc'[p] = "ul_raw"
      <4>1. pc[p] \in WantsGuard /\ pc' = [pc EXCEPT ![p] =
                                       CASE pc[p] = "lk_guard" -> "lk_check"
                                         [] pc[p] = "lk_back" -> "lk_record"
                                         [] pc[p] = "ul_guard" -> "ul_raw"]
        BY <2>1 DEF TakeGuard, Goto
      <4> QED
        BY <1>0, <4>1 DEF WantsGuard
    <3> QED
      BY <3>1, <3>2
  <2>2. CASE \/ RefuseType(p) \/ LockNoGetter(p) \/ UnlockStranger(p)
             \/ \E t \in LockType : CallLock(p, t) \/ CallUnlock(p, t)
    BY <1>0, <2>2 DEF RefuseType, CallLock, CallUnlock, LockNoGetter, UnlockStranger, ReturnReleasing,
       Goto, OInv
  <2> QED
    BY <2>1, <2>2
<1>4. GuardHeld'
  <2>1. CASE TakeGuard(p)
    <3>1. owner' = [owner EXCEPT ![BEFORELOCK] = p] /\ owner[BEFORELOCK] = NoThread
      BY <2>1 DEF TakeGuard
    <3>2. \A q \in Thread : pc[q] \notin UnderGuard
      BY <3>1, ThreadAssumption DEF OInv, OwnersShown, GuardHeld
    <3> QED
      BY <1>0, <1>2, <3>1, <3>2 DEF GuardHeld, Mutex
  <2>2. CASE \/ RefuseType(p) \/ \E t \in LockType : CallLock(p, t) \/ CallUnlock(p, t)
    <3>1. owner'[BEFORELOCK] = owner[BEFORELOCK] /\ pc'[p] \notin UnderGuard
      BY <1>0, <2>2 DEF RefuseType, CallLock, CallUnlock, Goto, LockType, BEFORELOCK, Mutex, OInv, UnderGuard
    <3> QED
      BY <1>2, <3>1 DEF OInv, OwnersShown, GuardHeld
  <2>3. CASE LockNoGetter(p) \/ UnlockStranger(p)
    <3>1. pc[p] \in UnderGuard /\ pc'[p] = "idle"
      BY <1>0, <2>3 DEF LockNoGetter, UnlockStranger, ReturnReleasing, Goto, UnderGuard
    <3>2. \A q \in Thread \ {p} : pc[q] \notin UnderGuard
      BY <3>1, CallsInOrder
    <3> QED
      BY <1>2, <3>1, <3>2 DEF GuardHeld, UnderGuard
  <2> QED
    BY <2>1, <2>2, <2>3
<1>5. \A q \in Thread : RowsOf(q)' = RowsOf(q)
  BY <1>1 DEF RowsOf
<1>6. \A q \in Thread, t \in LockType :
          (Unrecorded(q, t)' <=> Unrecorded(q, t)) /\ (Uncleared(q, t)' <=> Uncleared(q, t))
  BY <1>2, <1>3 DEF Unrecorded, Uncleared
<1>7. OwnersRecorded'
  BY <1>1, <1>5, <1>6 DEF OInv, OwnersShown, OwnersRecorded
<1>8. RecordsOwned'
  <2>1. \A i \in Getter : Held(mmgetter[i]) \subseteq LockType
    BY <1>0 DEF Held, Row, Mutex, BEFORELOCK
  <2> QED
    BY <1>1, <1>5, <1>6, <2>1 DEF OInv, OwnersShown, RecordsOwned
<1>9. UnclearedReused'
  <2> SUFFICES ASSUME NEW q \in Thread, pc'[q] = "ul_clear"
               PROVE  /\ mutex_type'[q] \in Held(mmgetter'[mmindex'[q]])
                      /\ \A r \in Thread : owner'[mutex_type'[q]] = r
                             => pc'[r] = "lk_back" /\ mutex_type'[r] = mutex_type'[q]
    BY DEF UnclearedReused
  <2>1. q # p /\ pc[q] = "ul_clear" /\ mutex_type'[q] = mutex_type[q] /\ mutex_type[q] \in LockType
    BY <1>0, <1>2, <1>3 DEF CallsTyped
  <2>2. pc[p] # "lk_back"
    BY <1>3, <2>1, ThreadAssumption DEF OInv, OwnersShown, GuardHeld, UnderGuard
  <2> QED
    BY <1>1, <1>2, <2>1, <2>2 DEF OInv, OwnersShown, UnclearedReused
<1>10. OncePerRow' /\ CountsRows'
  BY <1>1 DEF OInv, OwnersShown, OncePerRow, CountsRows, Recording
<1> QED
  BY <1>4, <1>7, <1>8, <1>9, <1>10 DEF OwnersShown

\* A mutex is taken: its taker will record it.
LEMMA ToldTaking ==
  ASSUME OInv, NEW p \in Thread, TakeMutex(p)
  PROVE  OwnersShown'
<1> DEFINE t == mutex_type[p]
<1>0. TypeOK /\ CallsTyped
  BY CallsInOrder
<1> USE DEF TypeOK
<1>1. /\ pc[p] = "lk_wait" /\ pc' = [pc EXCEPT ![p] = "lk_back"]
      /\ owner[t] = NoThread /\ owner' = [owner EXCEPT ![t] = p]
      /\ UNCHANGED <<mutex_lock_count, mmgetter, mutex_type, mmindex>>
  BY DEF TakeMutex, Goto
<1>2. t \in LockType /\ t \in Mutex /\ t # BEFORELOCK
  <2>1. t \in LockType
    BY <1>0, <1>1 DEF CallsTyped
  <2> QED
    BY <2>1, SizeAssumption DEF Mutex, BEFORELOCK, LockType
<1>3. \A q \in Thread : RowsOf(q)' = RowsOf(q)
  BY <1>1 DEF RowsOf
<1>4. /\ owner'[t] = p /\ \A u \in Mutex \ {t} : owner'[u] = owner[u]
      /\ pc'[p] = "lk_back" /\ \A q \in Thread \ {p} : pc'[q] = pc[q]
  BY <1>0, <1>1, <1>2
<1>5. \A u \in LockType : u \in Mutex
  BY DEF Mutex
<1>6. GuardHeld'
  BY <1>2, <1>4 DEF OInv, OwnersShown, GuardHeld, UnderGuard, Mutex
<1>7. OwnersRecorded'
  BY <1>1, <1>3, <1>4, <1>5, ThreadAssumption DEF OInv, OwnersShown, OwnersRecorded, Unrecorded
<1>8. RecordsOwned'
  <2> SUFFICES ASSUME NEW i \in Getter, NEW u \in Held(mmgetter[i])'
               PROVE  \E q \in Thread :
                          /\ i \in RowsOf(q)'
                          /\ Uncleared(q, u)' \/ (owner'[u] = q /\ ~Unrecorded(q, u)')
    BY DEF RecordsOwned
  <2>0. u \in Held(mmgetter[i])
    BY <1>1 DEF Held
  <2>1. PICK q \in Thread : i \in RowsOf(q) /\ (Uncleared(q, u) \/ (owner[u] = q /\ ~Unrecorded(q, u)))
    BY <2>0 DEF OInv, OwnersShown, RecordsOwned
  <2>2. u \in LockType
    BY <1>0, <2>0 DEF Held, Row, Mutex, BEFORELOCK
  <2>3. Uncleared(q, u) => Uncleared(q, u)'
    BY <1>1, <1>4 DEF Uncleared
  <2>4. owner[u] = q => u # t
    BY <1>1, ThreadAssumption
  <2>5. u # t => (Unrecorded(q, u)' <=> Unrecorded(q, u))
    BY <1>1, <1>4 DEF Unrecorded
  <2> QED
    BY <1>3, <1>4, <1>5, <2>1, <2>2, <2>3, <2>4, <2>5
<1>9. UnclearedReused'
  <2> SUFFICES ASSUME NEW q \in Thread, pc'[q] = "ul_clear", NEW r \in Thread, owner'[mutex_type[q]] = r
               PROVE  /\ mutex_type[q] \in Held(mmgetter[mmindex[q]])
                      /\ pc'[r] = "lk_back" /\ mutex_type[r] = mutex_type[q]
    BY <1>1, <1>4 DEF UnclearedReused, OInv, OwnersShown
  <2>1. q # p /\ pc[q] = "ul_clear" /\ mutex_type[q] \in LockType
    BY <1>0, <1>4 DEF CallsTyped
  <2>2. mutex_type[q] \in Held(mmgetter[mmindex[q]])
    BY <2>1 DEF OInv, OwnersShown, UnclearedReused
  <2>3. CASE mutex_type[q] = t
    BY <1>4, <2>2, <2>3
  <2>4. CASE mutex_type[q] # t
    <3>1. owner[mutex_type[q]] = r
      BY <1>4, <1>5, <2>1, <2>4
    <3>2. pc[r] = "lk_back" /\ mutex_type[r] = mutex_type[q]
      BY <2>1, <3>1 DEF OInv, OwnersShown, UnclearedReused
    <3> QED
      BY <1>4, <2>2, <3>2
  <2> QED
    BY <2>3, <2>4
<1>10. OncePerRow' /\ CountsRows'
  BY <1>1 DEF OInv, OwnersShown, OncePerRow, CountsRows, Recording
<1> QED
  BY <1>6, <1>7, <1>8, <1>9, <1>10 DEF OwnersShown

\* A mutex is given back: its row records it until the call clears it.
LEMMA ToldGiving ==
  ASSUME OInv, NEW p \in Thread, UnlockRaw(p)
  PROVE  OwnersShown'
<1> DEFINE t == mutex_type[p]
<1>0. TypeOK /\ CallsTyped /\ owner[t] = p
  BY CallsInOrder DEF UnlockRaw
<1> USE DEF TypeOK
<1>1. /\ pc[p] = "ul_raw" /\ pc' = [pc EXCEPT ![p] = "ul_clear"] /\ Registered(p)
      /\ owner' = [owner EXCEPT ![t] = NoThread]
      /\ mmindex' = [mmindex EXCEPT ![p] = Min(RowsOf(p))]
      /\ UNCHANGED <<mutex_lock_count, mmgetter, mutex_type>>
  BY <1>0 DEF UnlockRaw, Goto, UnlockedBy
<1>2. t \in LockType /\ t \in Mutex /\ t # BEFORELOCK
  <2>1. t \in LockType
    BY <1>0, <1>1 DEF CallsTyped
  <2> QED
    BY <2>1, SizeAssumption DEF Mutex, BEFORELOCK, LockType
<1>3. \A q \in Thread : RowsOf(q)' = RowsOf(q)
  BY <1>1 DEF RowsOf
<1>4. /\ owner'[t] = NoThread /\ \A u \in Mutex \ {t} : owner'[u] = owner[u]
      /\ pc'[p] = "ul_clear" /\ \A q \in Thread \ {p} : pc'[q] = pc[q] /\ mmindex'[q] = mmindex[q]
      /\ mmindex'[p] = Min(RowsOf(p))
  BY <1>0, <1>1, <1>2
<1>5. \A u \in LockType : u \in Mutex
  BY DEF Mutex
<1>6. GuardHeld'
  BY <1>1, <1>2, <1>4 DEF OInv, OwnersShown, GuardHeld, UnderGuard, Mutex
<1>7. OwnersRecorded'
  BY <1>1, <1>3, <1>4, <1>5, ThreadAssumption DEF OInv, OwnersShown, OwnersRecorded, Unrecorded
<1>8. RecordsOwned'
  <2> SUFFICES ASSUME NEW i \in Getter, NEW u \in Held(mmgetter[i])'
               PROVE  \E q \in Thread :
                          /\ i \in RowsOf(q)'
                          /\ Uncleared(q, u)' \/ (owner'[u] = q /\ ~Unrecorded(q, u)')
    BY DEF RecordsOwned
  <2>0. u \in Held(mmgetter[i])
    BY <1>1 DEF Held
  <2>1. PICK q \in Thread : i \in RowsOf(q) /\ (Uncleared(q, u) \/ (owner[u] = q /\ ~Unrecorded(q, u)))
    BY <2>0 DEF OInv, OwnersShown, RecordsOwned
  <2>2. u \in LockType
    BY <1>0, <2>0 DEF Held, Row, Mutex, BEFORELOCK
  <2>3. Uncleared(q, u) => Uncleared(q, u)'
    BY <1>1, <1>4 DEF Uncleared
  <2>4. owner[u] = q /\ u = t => Uncleared(q, u)'
    BY <1>0, <1>1, <1>4 DEF Uncleared
  <2>5. Unrecorded(q, u)' => Unrecorded(q, u)
    BY <1>1, <1>4 DEF Unrecorded
  <2> QED
    BY <1>3, <1>4, <1>5, <2>1, <2>2, <2>3, <2>4, <2>5
<1>9. UnclearedReused'
  <2> SUFFICES ASSUME NEW q \in Thread, pc'[q] = "ul_clear"
               PROVE  /\ mutex_type[q] \in Held(mmgetter[mmindex'[q]])
                      /\ \A r \in Thread : owner'[mutex_type[q]] = r
                             => pc'[r] = "lk_back" /\ mutex_type[r] = mutex_type[q]
    BY <1>1 DEF UnclearedReused
  <2>1. q = p
    <3>1. q # p => pc[q] = "ul_clear"
      BY <1>4
    <3> QED
      BY <1>1, <3>1, CallsInOrder DEF UnderGuard
  <2>2. RowsOf(p) \in SUBSET Getter /\ RowsOf(p) # {}
    BY <1>1 DEF Registered, RowsOf
  <2>3. Min(RowsOf(p)) \in RowsOf(p)
    BY <2>2, MinMaxOfRows
  <2>4. PICK i \in RowsOf(p) : t \in Held(mmgetter[i])
    BY <1>0, <1>1, <1>2 DEF OInv, OwnersShown, OwnersRecorded, Unrecorded
  <2>5. i = Min(RowsOf(p))
    BY <2>3, <2>4 DEF RowsOf, RowsDistinct, OInv, WInv
  <2> QED
    BY <1>4, <2>1, <2>4, <2>5, ThreadAssumption
<1>10. OncePerRow' /\ CountsRows'
  BY <1>1 DEF OInv, OwnersShown, OncePerRow, CountsRows, Recording
<1> QED
  BY <1>6, <1>7, <1>8, <1>9, <1>10 DEF OwnersShown

\* A request: it changes no slot, and whose row is whose only where a row was
\* free, which records nothing.
LEMMA ToldRequest ==
  ASSUME OInv, OInv => IndexOwn', Key \in Injection(Thread, Ident), NEW p \in Thread, LockCheck(p)
  PROVE  OwnersShown'
<1> DEFINE k == LockRow(p)
<1>0. TypeOK /\ CallsTyped
  BY CallsInOrder
<1> USE DEF TypeOK
<1>1. /\ pc[p] = "lk_check" /\ UNCHANGED <<mutex_lock_count, mutex_type>>
      /\ mmindex' = [mmindex EXCEPT ![p] = k]
      /\ \/ pc' = [pc EXCEPT ![p] = "spin"] /\ owner' = owner
         \/ pc' = [pc EXCEPT ![p] = "lk_wait"] /\ owner' = [owner EXCEPT ![BEFORELOCK] = NoThread]
  BY DEF LockCheck, Goto
<1>2. k \in Getter /\ (Registered(p) => k \in RowsOf(p)) /\ (~Registered(p) => k \in FreeRows)
  BY LockRowInTable DEF LockCheck
<1>3. /\ \A i \in Getter : mmgetter'[i].get_mutex_type = mmgetter[i].get_mutex_type
      /\ \A i \in Getter \ {k} : mmgetter'[i] = mmgetter[i]
      /\ mmgetter'[k].id = Key[p] /\ mmgetter'[k].is_used
  <2>1. mmgetter[k] \in Row
    BY <1>0, <1>2
  <2>2. mmgetter' = [mmgetter EXCEPT ![k] = [mmgetter[k] EXCEPT !.id = Key[p], !.is_used = TRUE,
                        !.is_waited = TRUE, !.wait_mutex_type = mutex_type[p]]]
    BY DEF LockCheck, Requested
  <2> QED
    BY <1>0, <1>2, <2>1, <2>2 DEF Row
<1>4. \A i \in Getter : Held(mmgetter'[i]) = Held(mmgetter[i])
  BY <1>3 DEF Held
<1>5. \A q \in Thread : RowsOf(q) \subseteq RowsOf(q)'
  <2>1. \A q \in Thread : \A i \in RowsOf(q) : i = k => mmgetter[k].is_used /\ mmgetter[k].id = Key[p]
    BY <1>2 DEF RowsOf, FreeRows
  <2> QED
    BY <1>3, <2>1 DEF RowsOf
<1>6. /\ \A t \in LockType : owner'[t] = owner[t]
      /\ pc'[p] \in {"spin", "lk_wait"} /\ \A q \in Thread \ {p} : pc'[q] = pc[q] /\ mmindex'[q] = mmindex[q]
  BY <1>0, <1>1 DEF LockType, BEFORELOCK, Mutex
<1>7. \A q \in Thread, t \in LockType :
          (Unrecorded(q, t)' <=> Unrecorded(q, t)) /\ (Uncleared(q, t)' <=> Uncleared(q, t))
  BY <1>1, <1>6 DEF Unrecorded, Uncleared
<1>8. GuardHeld'
  <2>1. \A q \in Thread \ {p} : pc[q] \notin UnderGuard
    BY <1>1, CallsInOrder DEF UnderGuard
  <2>2. owner[BEFORELOCK] = p
    BY <1>1 DEF OInv, OwnersShown, GuardHeld, UnderGuard
  <2>3. pc'[p] = "spin" => owner'[BEFORELOCK] = p
    BY <1>0, <1>1, <2>2
  <2> QED
    BY <1>6, <2>1, <2>3 DEF GuardHeld, UnderGuard
<1>9. OwnersRecorded'
  <2> SUFFICES ASSUME NEW t \in LockType, NEW q \in Thread, owner'[t] = q, ~Unrecorded(q, t)'
               PROVE  \E i \in RowsOf(q)' : t \in Held(mmgetter[i])'
    BY DEF OwnersRecorded
  <2>1. PICK i \in RowsOf(q) : t \in Held(mmgetter[i])
    BY <1>6, <1>7 DEF OInv, OwnersShown, OwnersRecorded
  <2>2. i \in Getter
    BY <2>1 DEF RowsOf
  <2>3. Held(mmgetter[i])' = Held(mmgetter'[i])
    BY DEF Held
  <2> QED
    BY <1>4, <1>5, <2>1, <2>2, <2>3
<1>10. RecordsOwned'
  <2> SUFFICES ASSUME NEW i \in Getter, NEW u \in Held(mmgetter[i])'
               PROVE  \E q \in Thread :
                          /\ i \in RowsOf(q)'
                          /\ Uncleared(q, u)' \/ (owner'[u] = q /\ ~Unrecorded(q, u)')
    BY DEF RecordsOwned
  <2>1. u \in Held(mmgetter[i]) /\ u \in LockType
    BY <1>0, <1>3 DEF Held, Row, Mutex, BEFORELOCK
  <2>2. PICK q \in Thread : i \in RowsOf(q) /\ (Uncleared(q, u) \/ (owner[u] = q /\ ~Unrecorded(q, u)))
    BY <2>1 DEF OInv, OwnersShown, RecordsOwned
  <2> QED
    BY <1>5, <1>6, <1>7, <2>1, <2>2
<1>11. UnclearedReused'
  <2>1. \A q \in Thread : pc'[q] # "ul_clear"
    BY <1>1, <1>6, CallsInOrder DEF UnderGuard
  <2> QED
    BY <2>1 DEF UnclearedReused
<1>12. OncePerRow'
  BY <1>3 DEF OInv, OwnersShown, OncePerRow
<1>13. CountsRows'
  <2>1. \A t \in LockType : Recording(t)' = Recording(t)
    BY <1>4 DEF Recording
  <2> QED
    BY <1>1, <2>1 DEF OInv, OwnersShown, CountsRows
<1> QED
  BY <1>8, <1>9, <1>10, <1>11, <1>12, <1>13 DEF OwnersShown

\* What the two steps that rewrite the caller's own row have in common.
LEMMA RowRewritten ==
  ASSUME OInv, NEW p \in Thread, LockRecord(p) \/ UnlockClear(p)
  PROVE  /\ pc' = [pc EXCEPT ![p] = "idle"] /\ UNCHANGED <<mutex_type, mmindex>>
         /\ owner' = [owner EXCEPT ![BEFORELOCK] = NoThread]
         /\ \A q \in Thread \ {p} : pc[q] \notin UnderGuard
         /\ mutex_type[p] \in LockType /\ \A t \in LockType : owner'[t] = owner[t]
         /\ mmindex[p] \in RowsOf(p) /\ mmgetter[mmindex[p]] \in Row
         /\ \A i \in Getter \ {mmindex[p]} : mmgetter'[i] = mmgetter[i]
         /\ \A q \in Thread : RowsOf(q)' = RowsOf(q)
         /\ GuardHeld' /\ UnclearedReused'
<1>0. TypeOK /\ CallsTyped
  BY CallsInOrder
<1> USE DEF TypeOK
<1>1. /\ pc[p] \in {"lk_record", "ul_clear"}
      /\ pc' = [pc EXCEPT ![p] = "idle"] /\ UNCHANGED <<mutex_type, mmindex>>
      /\ owner' = [owner EXCEPT ![BEFORELOCK] = NoThread]
  BY DEF LockRecord, UnlockClear, ReturnReleasing, Goto
<1>2. \A q \in Thread \ {p} : pc[q] \notin UnderGuard
  BY <1>1, CallsInOrder DEF UnderGuard
<1>3. mutex_type[p] \in LockType /\ \A t \in LockType : owner'[t] = owner[t]
  BY <1>0, <1>1 DEF CallsTyped, LockType, BEFORELOCK, Mutex
<1>4. mmindex[p] \in RowsOf(p) /\ mmgetter[mmindex[p]] \in Row
  BY <1>0, <1>1 DEF OInv, WInv, IndexOwn
<1>5. \A i \in Getter \ {mmindex[p]} : mmgetter'[i] = mmgetter[i]
  BY <1>0 DEF LockRecord, UnlockClear
<1>6. \A q \in Thread : RowsOf(q)' = RowsOf(q)
  BY RowsIdentified DEF RowsOf, OInv, WInv
<1>7. \A q \in Thread : pc'[q] \notin UnderGuard
  BY <1>0, <1>1, <1>2 DEF UnderGuard
<1>8. GuardHeld' /\ UnclearedReused'
  BY <1>7 DEF GuardHeld, UnclearedReused, UnderGuard
<1> QED
  BY <1>1, <1>2, <1>3, <1>4, <1>5, <1>6, <1>8

\* The record of an acquisition: its type was in no row and is now in one.
LEMMA ToldRecord ==
  ASSUME OInv, MAX_MUTEX_NUM >= MYMUTEX_TYPE_MAX - 1, NEW p \in Thread, LockRecord(p)
  PROVE  OwnersShown'
<1> DEFINE t == mutex_type[p]
           k == mmindex[p]
<1>0. TypeOK
  BY CallsInOrder
<1>1. /\ pc' = [pc EXCEPT ![p] = "idle"] /\ UNCHANGED <<mutex_type, mmindex>>
      /\ t \in LockType /\ \A u \in LockType : owner'[u] = owner[u]
      /\ k \in RowsOf(p) /\ mmgetter[k] \in Row
      /\ \A i \in Getter \ {k} : mmgetter'[i] = mmgetter[i]
      /\ \A q \in Thread : RowsOf(q)' = RowsOf(q)
      /\ GuardHeld' /\ UnclearedReused'
  BY RowRewritten
<1>2. pc[p] = "lk_record" /\ owner[t] = p /\ k \in Getter
  <2>1. pc[p] = "lk_record"
    BY DEF LockRecord
  <2> QED
    BY <1>1, <2>1, CallsInOrder DEF RowsOf
<1>3. Recording(t) = {}
  BY <1>1, <1>2, RecordedOnce
<1>4. t \notin Held(mmgetter[k])
  BY <1>2, <1>3 DEF Recording
<1>5. \A m, n \in Slot : mmgetter[k].get_mutex_type[m] = mmgetter[k].get_mutex_type[n]
                         /\ mmgetter[k].get_mutex_type[m] # 0 => m = n
  BY <1>2 DEF OInv, OwnersShown, OncePerRow
<1>6. {m \in Slot : mmgetter[k].get_mutex_type[m] = 0} # {}
  BY <1>1, <1>4, <1>5, RoomForType
<1>7. mmgetter'[k] = Recorded(mmgetter[k], t)
  BY <1>0, <1>2 DEF LockRecord, TypeOK
<1>8. Held(mmgetter'[k]) = Held(mmgetter[k]) \cup {t}
  BY <1>1, <1>4, <1>5, <1>6, <1>7, RecordedHeld
<1>9. \A m, n \in Slot : mmgetter'[k].get_mutex_type[m] = mmgetter'[k].get_mutex_type[n]
                         /\ mmgetter'[k].get_mutex_type[m] # 0 => m = n
  <2> DEFINE new == Recorded(mmgetter[k], t)
  <2>1. \A m, n \in Slot : new.get_mutex_type[m] = new.get_mutex_type[n]
                           /\ new.get_mutex_type[m] # 0 => m = n
    BY <1>1, <1>4, <1>5, <1>6, RecordedHeld
  <2> HIDE DEF new
  <2> QED
    BY <1>7, <2>1 DEF new
<1>10. pc'[p] = "idle" /\ \A q \in Thread \ {p} : pc'[q] = pc[q]
  BY <1>0, <1>1 DEF TypeOK
<1>11. OwnersRecorded'
  <2> SUFFICES ASSUME NEW u \in LockType, NEW q \in Thread, owner'[u] = q, ~Unrecorded(q, u)'
               PROVE  \E i \in RowsOf(q)' : u \in Held(mmgetter'[i])
    <3>1. \A i \in Getter : Held(mmgetter[i])' = Held(mmgetter'[i])
      BY DEF Held
    <3>2. \A q \in Thread : RowsOf(q)' \subseteq Getter
      BY DEF RowsOf
    <3> QED
      BY <3>1, <3>2 DEF OwnersRecorded
  <2>1. CASE q = p /\ u = t
    BY <1>1, <1>8, <2>1
  <2>2. CASE ~(q = p /\ u = t)
    <3>1. ~Unrecorded(q, u)
      BY <1>1, <1>10, <2>2 DEF Unrecorded
    <3>2. PICK i \in RowsOf(q) : u \in Held(mmgetter[i])
      BY <1>1, <3>1 DEF OInv, OwnersShown, OwnersRecorded
    <3>3. u \in Held(mmgetter'[i])
      BY <1>1, <1>8, <3>2 DEF RowsOf
    <3> QED
      BY <1>1, <3>2, <3>3
  <2> QED
    BY <2>1, <2>2
<1>12. RecordsOwned'
  <2> SUFFICES ASSUME NEW i \in Getter, NEW u \in Held(mmgetter'[i])
               PROVE  \E q \in Thread :
                          /\ i \in RowsOf(q)'
                          /\ Uncleared(q, u)' \/ (owner'[u] = q /\ ~Unrecorded(q, u)')
    <3>1. \A j \in Getter : Held(mmgetter[j])' = Held(mmgetter'[j])
      BY DEF Held
    <3> QED
      BY <3>1 DEF RecordsOwned
  <2>1. CASE i = k /\ u = t
    BY <1>1, <1>2, <1>10, <2>1 DEF Unrecorded
  <2>2. CASE ~(i = k /\ u = t)
    <3>1. u \in Held(mmgetter[i])
      BY <1>1, <1>8, <2>2
    <3>2. u \in LockType
      BY <1>0, <3>1 DEF TypeOK, Held, Row, Mutex, BEFORELOCK
    <3>3. PICK q \in Thread : i \in RowsOf(q) /\ (Uncleared(q, u) \/ (owner[u] = q /\ ~Unrecorded(q, u)))
      BY <3>1 DEF OInv, OwnersShown, RecordsOwned
    <3>4. Uncleared(q, u) => Uncleared(q, u)'
      BY <1>1, <1>2, <1>10 DEF Uncleared
    <3>5. Unrecorded(q, u)' => Unrecorded(q, u)
      BY <1>1, <1>10 DEF Unrecorded
    <3> QED
      BY <1>1, <3>2, <3>3, <3>4, <3>5
  <2> QED
    BY <2>1, <2>2
<1>13. OncePerRow'
  <2> SUFFICES ASSUME NEW i \in Getter, NEW m \in Slot, NEW n \in Slot,
                      mmgetter'[i].get_mutex_type[m] = mmgetter'[i].get_mutex_type[n],
                      mmgetter'[i].get_mutex_type[m] # 0
               PROVE  m = n
    BY DEF OncePerRow
  <2> QED
    BY <1>1, <1>9 DEF OInv, OwnersShown, OncePerRow
<1>14. CountsRows'
  <2> SUFFICES ASSUME NEW u \in LockType
               PROVE  mutex_lock_count'[u] = IF Recording(u)' = {} THEN 0 ELSE 1
    BY DEF CountsRows
  <2>1. mutex_lock_count' = [mutex_lock_count EXCEPT ![t] = mutex_lock_count[t] + 1]
    BY DEF LockRecord
  <2>2. Recording(u)' = {i \in Getter : u \in Held(mmgetter'[i])}
    BY DEF Recording, Held
  <2>3. mutex_lock_count[u] = IF Recording(u) = {} THEN 0 ELSE 1
    BY DEF OInv, OwnersShown, CountsRows
  <2>4. CASE u = t
    <3>1. k \in Recording(u)'
      BY <1>2, <1>8, <2>2, <2>4
    <3>2. Recording(u) = {}
      BY <1>3, <2>4
    <3>3. mutex_lock_count'[u] = mutex_lock_count[u] + 1
      BY <1>0, <2>1, <2>4 DEF TypeOK
    <3> QED
      BY <2>3, <3>1, <3>2, <3>3
  <2>5. CASE u # t
    <3>1. Recording(u)' = Recording(u)
      BY <1>1, <1>8, <2>2, <2>5 DEF Recording
    <3> QED
      BY <1>0, <2>1, <2>3, <2>5, <3>1 DEF TypeOK
  <2> QED
    BY <2>4, <2>5
<1> QED
  BY <1>1, <1>11, <1>12, <1>13, <1>14 DEF OwnersShown

\* The clearing of a release: its type was in the caller's row and is in none.
LEMMA ToldClear ==
  ASSUME OInv, NEW p \in Thread, UnlockClear(p)
  PROVE  OwnersShown'
<1> DEFINE t == mutex_type[p]
           k == mmindex[p]
<1>0. TypeOK
  BY CallsInOrder
<1>1. /\ pc' = [pc EXCEPT ![p] = "idle"] /\ UNCHANGED <<mutex_type, mmindex>>
      /\ t \in LockType /\ \A u \in LockType : owner'[u] = owner[u]
      /\ k \in RowsOf(p) /\ mmgetter[k] \in Row
      /\ \A i \in Getter \ {k} : mmgetter'[i] = mmgetter[i]
      /\ \A q \in Thread : RowsOf(q)' = RowsOf(q)
      /\ GuardHeld' /\ UnclearedReused'
  BY RowRewritten
<1>2. pc[p] = "ul_clear" /\ Uncleared(p, t) /\ k \in Getter
  BY <1>1 DEF UnlockClear, Uncleared, RowsOf
<1>3. Recording(t) = {k}
  BY <1>1, <1>2, RecordedOnce
<1>5. \A m, n \in Slot : mmgetter[k].get_mutex_type[m] = mmgetter[k].get_mutex_type[n]
                         /\ mmgetter[k].get_mutex_type[m] # 0 => m = n
  BY <1>2 DEF OInv, OwnersShown, OncePerRow
<1>7. mmgetter'[k] = Cleared(mmgetter[k], t)
  BY <1>0, <1>2 DEF UnlockClear, TypeOK
<1>8. Held(mmgetter'[k]) = Held(mmgetter[k]) \ {t}
  BY <1>1, <1>5, <1>7, ClearedHeld
<1>9. \A m, n \in Slot : mmgetter'[k].get_mutex_type[m] = mmgetter'[k].get_mutex_type[n]
                         /\ mmgetter'[k].get_mutex_type[m] # 0 => m = n
  <2> DEFINE new == Cleared(mmgetter[k], t)
  <2>1. \A m, n \in Slot : new.get_mutex_type[m] = new.get_mutex_type[n]
                           /\ new.get_mutex_type[m] # 0 => m = n
    BY <1>1, <1>5, ClearedHeld
  <2> HIDE DEF new
  <2> QED
    BY <1>7, <2>1 DEF new
<1>10. pc'[p] = "idle" /\ \A q \in Thread \ {p} : pc'[q] = pc[q]
  BY <1>0, <1>1 DEF TypeOK
<1>11. OwnersRecorded'
  <2> SUFFICES ASSUME NEW u \in LockType, NEW q \in Thread, owner'[u] = q, ~Unrecorded(q, u)'
               PROVE  \E i \in RowsOf(q)' : u \in Held(mmgetter'[i])
    <3>1. \A i \in Getter : Held(mmgetter[i])' = Held(mmgetter'[i])
      BY DEF Held
    <3>2. \A q \in Thread : RowsOf(q)' \subseteq Getter
      BY DEF RowsOf
    <3> QED
      BY <3>1, <3>2 DEF OwnersRecorded
  <2>1. ~Unrecorded(q, u)
    BY <1>1, <1>2, <1>10 DEF Unrecorded
  <2>2. u # t
    BY <1>1, <1>2, <2>1 DEF OInv, OwnersShown, UnclearedReused, Unrecorded
  <2>3. PICK i \in RowsOf(q) : u \in Held(mmgetter[i])
    BY <1>1, <2>1 DEF OInv, OwnersShown, OwnersRecorded
  <2>4. u \in Held(mmgetter'[i])
    BY <1>1, <1>8, <2>2, <2>3 DEF RowsOf
  <2> QED
    BY <1>1, <2>3, <2>4
<1>12. RecordsOwned'
  <2> SUFFICES ASSUME NEW i \in Getter, NEW u \in Held(mmgetter'[i])
               PROVE  \E q \in Thread :
                          /\ i \in RowsOf(q)'
                          /\ Uncleared(q, u)' \/ (owner'[u] = q /\ ~Unrecorded(q, u)')
    <3>1. \A j \in Getter : Held(mmgetter[j])' = Held(mmgetter'[j])
      BY DEF Held
    <3> QED
      BY <3>1 DEF RecordsOwned
  <2>1. u \in Held(mmgetter[i]) /\ u # t
    <3>1. CASE i = k
      BY <1>8, <3>1
    <3>2. CASE i # k
      BY <1>1, <1>3, <3>2 DEF Recording
    <3> QED
      BY <3>1, <3>2
  <2>2. u \in LockType
    BY <1>0, <2>1 DEF TypeOK, Held, Row, Mutex, BEFORELOCK
  <2>3. PICK q \in Thread : i \in RowsOf(q) /\ (Uncleared(q, u) \/ (owner[u] = q /\ ~Unrecorded(q, u)))
    BY <2>1 DEF OInv, OwnersShown, RecordsOwned
  <2>4. Uncleared(q, u) => Uncleared(q, u)'
    BY <1>1, <1>10, <2>1 DEF Uncleared
  <2>5. Unrecorded(q, u)' => Unrecorded(q, u)
    BY <1>1, <1>10 DEF Unrecorded
  <2> QED
    BY <1>1, <2>2, <2>3, <2>4, <2>5
<1>13. OncePerRow'
  <2> SUFFICES ASSUME NEW i \in Getter, NEW m \in Slot, NEW n \in Slot,
                      mmgetter'[i].get_mutex_type[m] = mmgetter'[i].get_mutex_type[n],
                      mmgetter'[i].get_mutex_type[m] # 0
               PROVE  m = n
    BY DEF OncePerRow
  <2> QED
    BY <1>1, <1>9 DEF OInv, OwnersShown, OncePerRow
<1>14. CountsRows'
  <2> SUFFICES ASSUME NEW u \in LockType
               PROVE  mutex_lock_count'[u] = IF Recording(u)' = {} THEN 0 ELSE 1
    BY DEF CountsRows
  <2>1. mutex_lock_count' = [mutex_lock_count EXCEPT ![t] = mutex_lock_count[t] - 1]
    BY DEF UnlockClear
  <2>2. Recording(u)' = {i \in Getter : u \in Held(mmgetter'[i])}
    BY DEF Recording, Held
  <2>3. mutex_lock_count[u] = IF Recording(u) = {} THEN 0 ELSE 1
    BY DEF OInv, OwnersShown, CountsRows
  <2>4. CASE u = t
    <3>1. Recording(u)' = {}
      BY <1>1, <1>3, <1>8, <2>2, <2>4 DEF Recording
    <3>2. Recording(u) # {}
      BY <1>3, <2>4
    <3>3. mutex_lock_count'[u] = mutex_lock_count[u] - 1
      BY <1>0, <2>1, <2>4 DEF TypeOK
    <3> QED
      BY <2>3, <3>1, <3>2, <3>3
  <2>5. CASE u # t
    <3>1. Recording(u)' = Recording(u)
      BY <1>1, <1>8, <2>2, <2>5 DEF Recording
    <3> QED
      BY <1>0, <2>1, <2>3, <2>5, <3>1 DEF TypeOK
  <2> QED
    BY <2>4, <2>5
<1> QED
  BY <1>1, <1>11, <1>12, <1>13, <1>14 DEF OwnersShown

\* What such callers do to the table and the mutexes is told by OInv.
LEMMA OwnersAlways ==
  ASSUME ~StrayUnlock, MayDie = {}, Modes \subseteq {TRUE}, Key \in Injection(Thread, Ident),
         MAX_MUTEX_NUM >= MYMUTEX_TYPE_MAX - 1
  PROVE  Spec => []OInv
<1> DEFINE Here == g_beforelock /\ OwnersShown
<1>1. Init => Here
  <2>1. \A i \in Getter : Init => Held(mmgetter[i]) = {}
    BY DEF Init, EmptyRow, Held
  <2>2. Init => \A t \in LockType : Recording(t) = {}
    BY <2>1 DEF Recording
  <2>3. Init => GuardHeld /\ UnclearedReused
    BY DEF Init, GuardHeld, UnclearedReused, UnderGuard
  <2>4. Init => OwnersRecorded
    BY ThreadAssumption DEF Init, OwnersRecorded, Mutex
  <2>5. Init => RecordsOwned
    BY <2>1 DEF RecordsOwned
  <2>6. Init => OncePerRow
    BY DEF Init, OncePerRow, EmptyRow
  <2>7. Init => CountsRows
    BY <2>2 DEF Init, CountsRows
  <2>8. Init => g_beforelock
    BY DEF Init
  <2> QED
    BY <2>3, <2>4, <2>5, <2>6, <2>7, <2>8 DEF OwnersShown
<1>2. ASSUME IInv, WInv, WInv', Here, [Next]_vars
      PROVE  Here'
  <2>1. OInv /\ UNCHANGED g_beforelock
    BY <1>2, ModeKept DEF OInv
  <2>2. UNCHANGED vars => OwnersShown'
    BY <1>2 DEF vars, OwnersShown, GuardHeld, OwnersRecorded, RecordsOwned, UnclearedReused, OncePerRow,
       CountsRows, Recording, RowsOf, Unrecorded, Uncleared
  <2>3. \A p \in Thread : ~Kill(p)
    BY DEF Kill
  <2>4. \A p \in Thread : ~RawTake(p)
    BY <2>1, CallsInOrder DEF RawTake
  <2>5. IndexOwn'
    BY <1>2 DEF WInv
  <2>6. OwnersShown'
    BY <1>2, <2>1, <2>2, <2>3, <2>4, <2>5, ToldQuietly, ToldTaking, ToldGiving, ToldRequest, ToldRecord,
       ToldClear DEF Next, Step, Call
  <2> QED
    BY <1>2, <2>1, <2>6
<1>3. Spec => []IInv /\ []WInv
  BY Inductive, WaitsAlways
<1>4. IInv /\ WInv /\ Here => OInv
  BY DEF OInv
<1> QED
  BY <1>1, <1>2, <1>3, <1>4, PTL DEF Spec

\* The table and the pthread mutexes agree but for the two gaps of a call, and
\* mutex_lock_count (267, 340) counts the rows that record a type: for callers
\* that pair their calls and are not killed, whatever the number of rows, if a
\* row has a slot for every type.
THEOREM OwnersTold ==
  ASSUME ~StrayUnlock, MayDie = {}, Modes \subseteq {TRUE}, Key \in Injection(Thread, Ident),
         MAX_MUTEX_NUM >= MYMUTEX_TYPE_MAX - 1
  PROVE  Spec => []TableTellsOwners
<1>1. OInv => TableTellsOwners
  <2> SUFFICES ASSUME OInv
               PROVE  TableTellsOwners
    OBVIOUS
  <2>1. \A i \in Getter : \A t \in Held(mmgetter[i]) :
           \E p \in Thread : /\ mmgetter[i].id = Key[p]
                             /\ owner[t] = p \/ (pc[p] = "ul_clear" /\ mutex_type[p] = t)
    BY DEF OInv, OwnersShown, RecordsOwned, RowsOf, Uncleared
  <2>2. \A t \in LockType : \A p \in Thread :
           owner[t] = p => \/ pc[p] \in {"lk_back", "lk_record"} /\ mutex_type[p] = t
                           \/ \E i \in RowsOf(p) : t \in Held(mmgetter[i])
    BY DEF OInv, OwnersShown, OwnersRecorded, Unrecorded
  <2>3. ASSUME NEW t \in LockType
        PROVE  mutex_lock_count[t] = Cardinality({i \in Getter : t \in Held(mmgetter[i])})
    <3>1. mutex_lock_count[t] = IF Recording(t) = {} THEN 0 ELSE 1
      BY DEF OInv, OwnersShown, CountsRows
    <3>2. \A i, j \in Recording(t) : i = j
      BY RecordedOnce
    <3>3. CASE Recording(t) = {}
      BY <3>1, <3>3, FS_EmptySet DEF Recording
    <3>4. CASE Recording(t) # {}
      <4>1. PICK i : Recording(t) = {i}
        BY <3>2, <3>4
      <4>2. Cardinality(Recording(t)) = 1
        BY <4>1, FS_Singleton
      <4> QED
        BY <3>1, <3>4, <4>2 DEF Recording
    <3> QED
      BY <3>3, <3>4
  <2> QED
    BY <2>1, <2>2, <2>3 DEF TableTellsOwners
<1> QED
  BY <1>1, OwnersAlways, PTL

\* A mutex of a killed thread stays locked for good (no robust mutexes, and a
\* caller frees only what it owns): for callers that pair their calls, under
\* BEFORELOCK or not.
THEOREM AbandonedKept ==
  ASSUME ~StrayUnlock
  PROVE  Spec => AbandonedStaysLocked
<1> DEFINE Kept == \A t \in LockType :
               owner[t] # NoThread /\ pc[owner[t]] = "dead" => owner'[t] = owner[t]
<1>1. IInv /\ [Next]_vars => [Kept]_vars
  <2> SUFFICES ASSUME IInv, [Next]_vars, UNCHANGED g_beforelock,
                      NEW t \in LockType, owner[t] # NoThread, pc[owner[t]] = "dead"
               PROVE  owner'[t] = owner[t]
    BY ModeKept
  <2> USE DEF IInv, Types, TypeOK, Mutex, LockType, BEFORELOCK, ReturnReleasing
  <2>1. ASSUME NEW p \in Thread,
               \/ RefuseType(p) \/ Kill(p) \/ TakeGuard(p) \/ LockNoGetter(p) \/ LockCheck(p)
               \/ LockRecord(p) \/ UnlockStranger(p) \/ UnlockClear(p)
               \/ \E u \in LockType : CallLock(p, u)
        PROVE  owner'[t] = owner[t]
    BY <2>1 DEF RefuseType, Kill, TakeGuard, LockNoGetter, LockCheck, LockRecord, UnlockStranger,
                UnlockClear, CallLock
  <2>2. ASSUME NEW p \in Thread, RawTake(p) \/ TakeMutex(p)
        PROVE  owner'[t] = owner[t]
    BY <2>2 DEF RawTake, TakeMutex
  <2>3. ASSUME NEW p \in Thread, UnlockRaw(p)
        PROVE  owner'[t] = owner[t]
    <3>1. /\ pc[p] = "ul_raw" /\ Registered(p)
          /\ owner' = [owner EXCEPT ![mutex_type[p]] = NoThread]
             \/ owner' = [owner EXCEPT ![mutex_type[p]] = owner[mutex_type[p]]]
      BY <2>3 DEF UnlockRaw, UnlockedBy
    <3>2. mutex_type[p] = t => owner[t] = p
      BY <3>1 DEF ClaimsOwned, Claims, Entitled
    <3> QED
      BY <3>1, <3>2
  <2>4. ASSUME NEW p \in Thread, NEW u \in LockType, CallUnlock(p, u)
        PROVE  owner'[t] = owner[t]
    <3>1. pc[p] = "idle" /\ u \in inside[p]
      BY <2>4 DEF CallUnlock
    <3>2. g_beforelock => owner' = owner
      BY <2>4 DEF CallUnlock
    <3>3. ~g_beforelock => \E o \in UnlockedBy(p, u) : owner' = [owner EXCEPT ![u] = o]
      BY <2>4 DEF CallUnlock
    <3>4. ~g_beforelock => owner[u] = p
      BY <3>1 DEF ClaimsOwned, Claims, Entitled
    <3>5. u = t => g_beforelock
      BY <3>1, <3>4
    <3> QED
      BY <3>2, <3>3, <3>5
  <2> QED
    BY <2>1, <2>2, <2>3, <2>4 DEF Next, Step, Call, vars
<1> QED
  BY <1>1, Inductive, PTL DEF Spec, AbandonedStaysLocked


----------------------------------------------------------------------------
(* The lock manager *)

Proved == INSTANCE LockManagerProofs
    WITH holder <- [t \in LockType |-> owner[t]], want <- Wanted, alarm <- Told

\* The mapping meets what the theorems of LockManagerProofs assume.
LEMMA MarksApart == Proved!ManagerAssumption
BY ThreadAssumption, SizeAssumption DEF Proved!ManagerAssumption, LockType

\* The two instances of LockManager are one.
LEMMA SameManager ==
  /\ Manager!Init <=> Proved!Init
  /\ [Manager!Next]_(Manager!vars) <=> [Proved!Next]_(Proved!vars)
  /\ Manager!TypeOK <=> Proved!TypeOK
  /\ Manager!AlarmsAreRings <=> Proved!AlarmsAreRings
BY DEF Manager!Init, Proved!Init, Manager!Next, Proved!Next, Manager!vars, Proved!vars,
       Manager!Grant, Proved!Grant, Manager!Request, Proved!Request, Manager!Release,
       Proved!Release, Manager!RingIn, Proved!RingIn, Manager!BlockedBy, Proved!BlockedBy,
       Manager!AlarmsAreRings, Proved!AlarmsAreRings, Manager!Ring, Proved!Ring,
       Manager!TypeOK, Proved!TypeOK

----------------------------------------------------------------------------
(* The rings of rows are the rings of threads *)

\* What each thread has asked for and published, spinning ones included.
Asked == [q \in Thread |-> IF pc[q] \in {"lk_wait", "spin"} THEN mutex_type[q] ELSE 0]

\* No call is between its mutex operation and its record of it: so it is while
\* another one checks, under BEFORELOCK.
NoneWriting == \A q \in Thread : pc[q] \notin {"lk_record", "ul_clear", "dead"}

\* The row of an asking thread waits for what it asked for.
LEMMA AskingRow ==
  ASSUME OInv, NEW q \in Thread, pc[q] \in {"lk_wait", "spin"}
  PROVE  /\ mmindex[q] \in Getter /\ mmindex[q] \in RowsOf(q)
         /\ \A i \in RowsOf(q) : i = mmindex[q]
         /\ mutex_type[q] \in LockType /\ Asked[q] = mutex_type[q] /\ Asked[q] # 0
         /\ NextOf(mmgetter, mmindex[q]) = HolderOf(mmgetter, Asked[q])
<1> USE DEF OInv, WInv
<1>1. mmindex[q] \in RowsOf(q)
  BY DEF IndexOwn
<1>2. mmindex[q] \in Getter /\ \A i \in RowsOf(q) : i = mmindex[q]
  BY <1>1 DEF RowsOf, RowsDistinct
<1>3. mmgetter[mmindex[q]].is_waited /\ mmgetter[mmindex[q]].wait_mutex_type = mutex_type[q]
  BY <1>1 DEF RowsShowWaits
<1>4. mutex_type[q] \in LockType /\ Asked[q] = mutex_type[q]
  BY CallsInOrder DEF CallsTyped, Asked
<1>5. Asked[q] # 0
  BY <1>4, SizeAssumption DEF LockType
<1> QED
  BY <1>1, <1>2, <1>3, <1>4, <1>5 DEF NextOf

\* The row that holds what an asking thread asked for.
LEMMA HolderRecords ==
  ASSUME NEW tbl, NEW t, HolderOf(tbl, t) \in Getter
  PROVE  tbl[HolderOf(tbl, t)].is_used /\ t \in Held(tbl[HolderOf(tbl, t)])
<1> DEFINE rows == {k \in Getter : tbl[k].is_used /\ t \in Held(tbl[k])}
<1>1. rows \in SUBSET Nat /\ NoGetter \notin Getter
  BY SizeAssumption DEF Getter, NoGetter
<1>2. rows # {} => Min(rows) \in rows
  BY <1>1, LeastIsMin
<1>3. HolderOf(tbl, t) = IF rows = {} THEN NoGetter ELSE Min(rows)
  BY DEF HolderOf
<1>4. HolderOf(tbl, t) \in rows
  BY <1>1, <1>2, <1>3
<1> QED
  BY <1>4

\* One asking thread owns what another has asked for exactly if its row is the
\* one the search for the holder finds.
LEMMA OwnerIsHolder ==
  ASSUME OInv, NoneWriting, Key \in Injection(Thread, Ident),
         NEW q \in Thread, pc[q] \in {"lk_wait", "spin"},
         NEW r \in Thread, pc[r] \in {"lk_wait", "spin"}
  PROVE  owner[Asked[q]] = r <=> HolderOf(mmgetter, Asked[q]) = mmindex[r]
<1> DEFINE t == Asked[q]
           rows == {k \in Getter : mmgetter[k].is_used /\ t \in Held(mmgetter[k])}
<1>1. t \in LockType /\ mmindex[r] \in Getter /\ mmindex[r] \in RowsOf(r)
  BY AskingRow
<1>2. ASSUME owner[t] = r
      PROVE  HolderOf(mmgetter, t) = mmindex[r]
  <2>1. PICK i \in RowsOf(r) : t \in Held(mmgetter[i])
    BY <1>1, <1>2 DEF OInv, OwnersShown, OwnersRecorded, Unrecorded
  <2>2. i = mmindex[r] /\ mmgetter[i].is_used
    BY <2>1, AskingRow DEF RowsOf
  <2>3. mmindex[r] \in rows
    BY <1>1, <2>1, <2>2
  <2>4. \A k \in rows : k = mmindex[r]
    BY <1>1, <2>3, RecordedOnce DEF Recording
  <2>5. rows \in SUBSET Nat
    BY SizeAssumption DEF Getter
  <2>6. Min(rows) \in rows
    BY <2>3, <2>5, LeastIsMin
  <2>7. HolderOf(mmgetter, t) = IF rows = {} THEN NoGetter ELSE Min(rows)
    BY DEF HolderOf
  <2> QED
    BY <2>3, <2>4, <2>6, <2>7
<1>3. ASSUME HolderOf(mmgetter, t) = mmindex[r]
      PROVE  owner[t] = r
  <2>1. t \in Held(mmgetter[mmindex[r]])
    BY <1>1, <1>3, HolderRecords
  <2>2. PICK x \in Thread : mmindex[r] \in RowsOf(x) /\ (Uncleared(x, t) \/ owner[t] = x)
    BY <1>1, <2>1 DEF OInv, OwnersShown, RecordsOwned
  <2>3. x = r
    BY <1>1, <2>2 DEF RowsOf, Injection, IsInjective
  <2> QED
    BY <2>2, <2>3 DEF NoneWriting, Uncleared
<1> QED
  BY <1>2, <1>3

\* A row in the midst of a way along the waits is that of an asking thread: that
\* of a thread which has its mutex, unrecorded, waits for what no row holds.
LEMMA RingRowsAsk ==
  ASSUME OInv, NoneWriting, NEW u, NEW i \in Getter, HolderOf(mmgetter, u) = i,
         NextOf(mmgetter, i) \in Getter
  PROVE  \E x \in Thread : pc[x] \in {"lk_wait", "spin"} /\ mmindex[x] = i
<1> DEFINE w == mmgetter[i].wait_mutex_type
<1>1. PICK x \in Thread : i \in RowsOf(x)
  <2>1. u \in Held(mmgetter[i])
    BY HolderRecords
  <2> QED
    BY <2>1 DEF OInv, OwnersShown, RecordsOwned
<1>2. mmgetter[i].is_waited /\ HolderOf(mmgetter, w) \in Getter
  <2>1. NoGetter \notin Getter
    BY SizeAssumption DEF Getter, NoGetter
  <2> QED
    BY <2>1 DEF NextOf
<1>3. pc[x] \in {"lk_wait", "lk_back", "spin"} /\ w = mutex_type[x]
  BY <1>1, <1>2 DEF OInv, WInv, RowsShowWaits, NoneWriting
<1>4. pc[x] # "lk_back"
  <2> SUFFICES ASSUME pc[x] = "lk_back"
               PROVE  FALSE
    OBVIOUS
  <2> DEFINE k == HolderOf(mmgetter, w)
  <2>1. owner[w] = x
    BY <1>3, CallsInOrder
  <2>2. k \in Getter /\ w \in Held(mmgetter[k])
    BY <1>2, HolderRecords
  <2>3. PICK y \in Thread : Uncleared(y, w) \/ (owner[w] = y /\ ~Unrecorded(y, w))
    BY <2>2 DEF OInv, OwnersShown, RecordsOwned
  <2>4. y = x /\ ~Unrecorded(x, w)
    BY <2>1, <2>3 DEF NoneWriting, Uncleared
  <2> QED
    BY <1>3, <2>4 DEF Unrecorded
<1> QED
  BY <1>1, <1>3, <1>4, AskingRow

\* So a thread's row is in a ring of rows exactly if the thread is in a ring of
\* threads, while none is writing.
LEMMA RingsAgree ==
  ASSUME Key \in Injection(Thread, Ident), NEW p \in Thread
  PROVE  OInv /\ NoneWriting /\ pc[p] \in {"lk_wait", "spin"}
         => ( (\E R \in SUBSET Getter : mmindex[p] \in R /\ RingOf(mmgetter, R))
              <=> (\E S \in SUBSET Thread : p \in S /\ Manager!RingIn(Asked, S)) )
<1> SUFFICES ASSUME OInv, NoneWriting, pc[p] \in {"lk_wait", "spin"}
             PROVE  (\E R \in SUBSET Getter : mmindex[p] \in R /\ RingOf(mmgetter, R))
                    <=> (\E S \in SUBSET Thread : p \in S /\ Manager!RingIn(Asked, S))
  OBVIOUS
<1> DEFINE Asking == {q \in Thread : pc[q] \in {"lk_wait", "spin"}}
<1>1. /\ \A q \in Asking : /\ mmindex[q] \in Getter /\ Asked[q] \in LockType
                           /\ NextOf(mmgetter, mmindex[q]) = HolderOf(mmgetter, Asked[q])
                           /\ Manager!BlockedBy(Asked, q) = owner[Asked[q]]
      /\ \A q \in Thread \ Asking : Manager!BlockedBy(Asked, q) = NoThread
  BY AskingRow DEF Asked, Manager!BlockedBy
<1>2. \A q, r \in Asking : owner[Asked[q]] = r <=> HolderOf(mmgetter, Asked[q]) = mmindex[r]
  BY OwnerIsHolder
<1>3. ASSUME NEW R \in SUBSET Getter, mmindex[p] \in R, RingOf(mmgetter, R)
      PROVE  \E S \in SUBSET Thread : p \in S /\ Manager!RingIn(Asked, S)
  <2> DEFINE S == {q \in Asking : mmindex[q] \in R}
  <2>1. \A i \in R : \E q \in S : mmindex[q] = i
    <3> SUFFICES ASSUME NEW i \in R
                 PROVE  \E q \in S : mmindex[q] = i
      OBVIOUS
    <3>1. NextOf(mmgetter, i) \in Getter
      BY <1>3 DEF RingOf
    <3>2. PICK j \in R : NextOf(mmgetter, j) = i
      BY <1>3 DEF RingOf
    <3>3. HolderOf(mmgetter, mmgetter[j].wait_mutex_type) = i
      <4>1. i # NoGetter
        BY SizeAssumption DEF Getter, NoGetter
      <4> QED
        BY <3>2, <4>1 DEF NextOf
    <3>4. PICK q \in Thread : pc[q] \in {"lk_wait", "spin"} /\ mmindex[q] = i
      BY <3>1, <3>3, RingRowsAsk
    <3> QED
      BY <3>4
  <2>2. \A q \in S : \E r \in S : Manager!BlockedBy(Asked, q) = r
    <3> SUFFICES ASSUME NEW q \in S
                 PROVE  \E r \in S : Manager!BlockedBy(Asked, q) = r
      OBVIOUS
    <3>1. NextOf(mmgetter, mmindex[q]) \in R
      BY <1>3 DEF RingOf
    <3>2. PICK r \in S : mmindex[r] = NextOf(mmgetter, mmindex[q])
      BY <2>1, <3>1
    <3> QED
      BY <1>1, <1>2, <3>2
  <2>3. \A r \in S : \E q \in S : Manager!BlockedBy(Asked, q) = r
    <3> SUFFICES ASSUME NEW r \in S
                 PROVE  \E q \in S : Manager!BlockedBy(Asked, q) = r
      OBVIOUS
    <3>1. PICK j \in R : NextOf(mmgetter, j) = mmindex[r]
      BY <1>3 DEF RingOf
    <3>2. PICK q \in S : mmindex[q] = j
      BY <2>1
    <3> QED
      BY <1>1, <1>2, <3>1, <3>2
  <2>4. p \in S /\ S \in SUBSET Thread
    BY <1>3
  <2> HIDE DEF S
  <2>5. Manager!RingIn(Asked, S)
    BY <2>2, <2>3, <2>4 DEF Manager!RingIn
  <2> QED
    BY <2>4, <2>5
<1>4. ASSUME NEW S \in SUBSET Thread, p \in S, Manager!RingIn(Asked, S)
      PROVE  \E R \in SUBSET Getter : mmindex[p] \in R /\ RingOf(mmgetter, R)
  <2> DEFINE R == {mmindex[q] : q \in S}
  <2>1. S \in SUBSET Asking
    BY <1>1, <1>4, ThreadAssumption DEF Manager!RingIn
  <2>2. \A q \in S : owner[Asked[q]] \in S /\ \E r \in S : owner[Asked[r]] = q
    BY <1>1, <1>4, <2>1 DEF Manager!RingIn
  <2>3. \A q, r \in S : owner[Asked[q]] = r => NextOf(mmgetter, mmindex[q]) = mmindex[r]
    BY <1>1, <1>2, <2>1
  <2>4. \A i \in R : NextOf(mmgetter, i) \in R /\ \E j \in R : NextOf(mmgetter, j) = i
    BY <2>2, <2>3
  <2>5. R \in SUBSET Getter /\ mmindex[p] \in R
    BY <1>1, <1>4, <2>1
  <2> HIDE DEF R
  <2>6. RingOf(mmgetter, R)
    BY <2>4, <2>5 DEF RingOf
  <2> QED
    BY <2>5, <2>6
<1> QED
  BY <1>3, <1>4

LEMMA RingsAgreeNext ==
  ASSUME Key \in Injection(Thread, Ident), NEW p \in Thread
  PROVE  (OInv /\ NoneWriting /\ pc[p] \in {"lk_wait", "spin"})'
         => ( (\E R \in SUBSET Getter : mmindex[p] \in R /\ RingOf(mmgetter, R))
              <=> (\E S \in SUBSET Thread : p \in S /\ Manager!RingIn(Asked, S)) )'
BY RingsAgree, PTL

----------------------------------------------------------------------------
(* The steps *)

\* A call starts with nothing logged, and logs nothing before it checks.
LoggedAfresh == \A p \in Thread : pc[p] \in {"lk_guard", "lk_check"} => logged[p] = {}

DInv == OInv /\ LoggedAfresh /\ Manager!AlarmsAreRings /\ \A p \in Thread : pc[p] # "dead"

LEMMA TypesAreNotZero == \A t \in LockType : t # 0
BY SizeAssumption DEF LockType

\* The holders the lock manager knows change with the owners of the types.
LEMMA HoldersFollow ==
  ASSUME TypeOK, TypeOK'
  PROVE  /\ (\A t \in LockType : owner'[t] = owner[t])
                => [t \in LockType |-> owner[t]]' = [t \in LockType |-> owner[t]]
         /\ \A u \in LockType, o \in Thread \cup {NoThread} :
                owner' = [owner EXCEPT ![u] = o]
                => [t \in LockType |-> owner[t]]' = [[t \in LockType |-> owner[t]] EXCEPT ![u] = o]
<1>1. LockType \subseteq Mutex
  BY DEF Mutex
<1> QED
  BY <1>1 DEF TypeOK

\* A step that leaves the owners of the types alone, and p outside lk_wait
\* before and after, is none of the lock manager's.
LEMMA Unseen ==
  ASSUME TypeOK, TypeOK', NEW p \in Thread,
         \A t \in LockType : owner'[t] = owner[t],
         pc[p] # "lk_wait", pc'[p] # "lk_wait",
         \A q \in Thread \ {p} : UNCHANGED <<pc[q], mutex_type[q], logged[q]>>
  PROVE  UNCHANGED Manager!vars
<1>1. Wanted' = Wanted
  BY DEF Wanted
<1>2. Told' = Told
  BY DEF Told
<1>3. [t \in LockType |-> owner[t]]' = [t \in LockType |-> owner[t]]
  BY HoldersFollow
<1> QED
  BY <1>1, <1>2, <1>3 DEF Manager!vars

\* The steps the lock manager does not see.
LEMMA UnseenSteps ==
  ASSUME DInv, TypeOK', UNCHANGED g_beforelock, NEW p \in Thread,
         \/ RefuseType(p) \/ TakeGuard(p) \/ LockNoGetter(p) \/ LockRecord(p)
         \/ UnlockStranger(p) \/ UnlockClear(p)
         \/ \E t \in LockType : CallLock(p, t) \/ CallUnlock(p, t)
  PROVE  UNCHANGED Manager!vars /\ LoggedAfresh'
<1>0. TypeOK /\ g_beforelock /\ LoggedAfresh
  BY CallsInOrder DEF DInv, OInv
<1> USE DEF TypeOK
<1>1. \A t \in LockType : owner'[t] = owner[t]
  BY <1>0 DEF RefuseType, TakeGuard, CallLock, CallUnlock, LockNoGetter, UnlockStranger, LockRecord,
         UnlockClear, ReturnReleasing, LockType, BEFORELOCK, Mutex
<1>2. \A q \in Thread \ {p} : UNCHANGED <<pc[q], mutex_type[q], logged[q]>>
  BY <1>0 DEF RefuseType, TakeGuard, CallLock, CallUnlock, LockNoGetter, UnlockStranger, LockRecord,
         UnlockClear, ReturnReleasing, Goto, Complain
<1>3. /\ pc[p] # "lk_wait" /\ pc'[p] # "lk_wait"
      /\ pc'[p] \in {"lk_guard", "lk_check"} => logged'[p] = {}
  <2>1. CASE TakeGuard(p)
    <3>1. /\ pc[p] \in WantsGuard /\ UNCHANGED logged
          /\ pc' = [pc EXCEPT ![p] = CASE pc[p] = "lk_guard" -> "lk_check"
                                       [] pc[p] = "lk_back" -> "lk_record"
                                       [] pc[p] = "ul_guard" -> "ul_raw"]
      BY <2>1 DEF TakeGuard, Goto
    <3>2. \/ pc[p] = "lk_guard" /\ pc'[p] = "lk_check"
          \/ pc[p] = "lk_back" /\ pc'[p] = "lk_record"
          \/ pc[p] = "ul_guard" /\ pc'[p] = "ul_raw"
      BY <1>0, <3>1 DEF WantsGuard
    <3> QED
      BY <1>0, <3>1, <3>2 DEF LoggedAfresh
  <2>2. CASE \E t \in LockType : CallLock(p, t) \/ CallUnlock(p, t)
    BY <1>0, <2>2 DEF CallLock, CallUnlock, Goto
  <2>3. CASE \/ RefuseType(p) \/ LockNoGetter(p) \/ LockRecord(p)
             \/ UnlockStranger(p) \/ UnlockClear(p)
    BY <1>0, <2>3 DEF RefuseType, LockNoGetter, LockRecord, UnlockStranger, UnlockClear,
       ReturnReleasing, Goto
  <2> QED
    BY <2>1, <2>2, <2>3
<1>4. LoggedAfresh'
  BY <1>0, <1>2, <1>3 DEF LoggedAfresh
<1> QED
  BY <1>0, <1>1, <1>2, <1>3, <1>4, Unseen

\* The end of the checks is a request, told at once if it closes a ring; a walk
\* that does not come to an end is no step of the lock manager's.
LEMMA CheckIsRequest ==
  ASSUME DInv, OInv', Key \in Injection(Thread, Ident), NEW p \in Thread, LockCheck(p)
  PROVE  /\ (\E t \in LockType : Manager!Request(p, t)) \/ UNCHANGED Manager!vars
         /\ LoggedAfresh'
<1> DEFINE t == mutex_type[p]
           asked == [Wanted EXCEPT ![p] = t]
           holders == [u \in LockType |-> owner[u]]
<1>0. TypeOK /\ CallsTyped /\ TypeOK'
  BY CallsInOrder DEF DInv, OInv, IInv, Types
<1> USE DEF TypeOK
<1>1. /\ pc[p] = "lk_check" /\ t \in LockType /\ t # 0 /\ UNCHANGED mutex_type
      /\ mmindex'[p] = LockRow(p) /\ LockRow(p) \in Getter
  <2>1. pc[p] = "lk_check" /\ UNCHANGED mutex_type /\ mmindex' = [mmindex EXCEPT ![p] = LockRow(p)]
    BY DEF LockCheck
  <2>2. LockRow(p) \in Getter
    BY LockRowInTable DEF LockCheck
  <2>3. t \in LockType
    BY <1>0, <2>1 DEF CallsTyped
  <2> QED
    BY <1>0, <2>1, <2>2, <2>3, TypesAreNotZero
<1>2. PICK verdict \in {isDeadLock(mmgetter', mmindex'[p])} :
          /\ logged' = [logged EXCEPT ![p] = @ \cup
                 (If(~isLockJyunbanOk(Jyunban, mmgetter[LockRow(p)]), "lock_order")
                  \cup If(verdict = "YES", "deadlock"))]
          /\ \/ pc' = [pc EXCEPT ![p] = "spin"] /\ UNCHANGED owner
             \/ /\ pc' = [pc EXCEPT ![p] = "lk_wait"]
                /\ owner' = [owner EXCEPT ![BEFORELOCK] = NoThread]
  BY DEF LockCheck, Complain, Goto
<1>3. /\ \A u \in LockType : owner'[u] = owner[u]
      /\ \A q \in Thread \ {p} : UNCHANGED <<pc[q], mutex_type[q], logged[q]>>
      /\ pc'[p] \in {"lk_wait", "spin"}
  BY <1>0, <1>1, <1>2 DEF LockType, BEFORELOCK, Mutex
<1>4. LoggedAfresh'
  BY <1>3 DEF DInv, LoggedAfresh
<1>5. CASE pc'[p] = "spin"
  BY <1>0, <1>1, <1>3, <1>4, <1>5, Unseen
<1>6. CASE pc'[p] = "lk_wait"
  <2>1. holders' = holders
    BY <1>0, <1>3, HoldersFollow
  <2>2. Wanted[p] = 0 /\ Wanted' = asked
    BY <1>1, <1>3, <1>6 DEF Wanted
  <2>3. "deadlock" \in logged'[p] <=> verdict = "YES"
    <3>1. logged[p] = {}
      BY <1>1 DEF DInv, LoggedAfresh
    <3>2. "deadlock" \notin If(~isLockJyunbanOk(Jyunban, mmgetter[LockRow(p)]), "lock_order")
      BY DEF If
    <3>3. "deadlock" \in If(verdict = "YES", "deadlock") <=> verdict = "YES"
      BY DEF If
    <3> QED
      BY <1>0, <1>2, <3>1, <3>2, <3>3
  <2>4. Told' = IF verdict = "YES" THEN Told \cup {p} ELSE Told
    BY <1>1, <1>3, <1>6, <2>3 DEF Told
  <2>5. verdict = "YES" <=> \E R \in SUBSET Getter : mmindex'[p] \in R /\ RingOf(mmgetter', R)
    BY <1>1, <1>2, YesIsRing
  <2>6. NoneWriting' /\ Asked' = asked
    <3>1. \A q \in Thread \ {p} : pc[q] \notin UnderGuard
      BY <1>1, CallsInOrder DEF DInv, UnderGuard
    <3>2. \A q \in Thread : pc[q] # "dead"
      BY DEF DInv
    <3>3. NoneWriting'
      BY <1>3, <1>6, <3>1, <3>2 DEF NoneWriting, UnderGuard
    <3>4. \A q \in Thread \ {p} : pc[q] # "spin"
      BY <3>1 DEF UnderGuard
    <3>5. Asked' = Wanted'
      BY <1>3, <1>6, <3>4 DEF Asked, Wanted
    <3> QED
      BY <2>2, <3>3, <3>5
  <2>7. (\E R \in SUBSET Getter : mmindex'[p] \in R /\ RingOf(mmgetter', R))
        <=> (\E S \in SUBSET Thread : p \in S /\ Manager!RingIn(Asked, S))'
    <3>1. \A R \in SUBSET Getter : RingOf(mmgetter, R)' <=> RingOf(mmgetter', R)
      BY DEF RingOf, NextOf, HolderOf, Held, Min
    <3>2. ( (\E R \in SUBSET Getter : mmindex[p] \in R /\ RingOf(mmgetter, R))
            <=> (\E S \in SUBSET Thread : p \in S /\ Manager!RingIn(Asked, S)) )'
      BY <1>6, <2>6, RingsAgreeNext
    <3> QED
      BY <3>1, <3>2
  <2>8. \A S \in SUBSET Thread : Manager!RingIn(Asked, S)' <=> Manager!RingIn(asked, S)
    <3> HIDE DEF asked
    <3>1. \A q \in Thread : Manager!BlockedBy(Asked, q)' = Manager!BlockedBy(asked, q)
      BY <2>1, <2>6 DEF Manager!BlockedBy
    <3> QED
      BY <3>1 DEF Manager!RingIn
  <2>9. Told' = IF \E S \in SUBSET Thread : p \in S /\ Manager!RingIn(asked, S)
                THEN Told \cup {p} ELSE Told
    BY <2>4, <2>5, <2>7, <2>8
  <2>10. Manager!Request(p, t)
    BY <2>1, <2>2, <2>9 DEF Manager!Request
  <2> QED
    BY <1>1, <1>4, <2>10
<1> QED
  BY <1>3, <1>5, <1>6

\* The pthread_mutex_lock that returns is a grant, and not to one who was told:
\* that one's mutex is owned.
LEMMA TakingIsGrant ==
  ASSUME DInv, TypeOK', NEW p \in Thread, TakeMutex(p)
  PROVE  Manager!Grant(p) /\ LoggedAfresh'
<1> DEFINE t == mutex_type[p]
           holders == [u \in LockType |-> owner[u]]
<1>0. TypeOK /\ CallsTyped
  BY CallsInOrder DEF DInv
<1> USE DEF TypeOK
<1>1. /\ pc[p] = "lk_wait" /\ owner[t] = NoThread /\ owner' = [owner EXCEPT ![t] = p]
      /\ pc' = [pc EXCEPT ![p] = "lk_back"] /\ UNCHANGED <<mutex_type, logged>>
  BY DEF TakeMutex, Goto
<1>2. t \in LockType /\ t # 0
  <2>1. t \in LockType
    BY <1>0, <1>1 DEF CallsTyped
  <2> QED
    BY <2>1, TypesAreNotZero
<1>3. Wanted[p] = t /\ Wanted' = [Wanted EXCEPT ![p] = 0]
  BY <1>0, <1>1 DEF Wanted
<1>4. holders' = [holders EXCEPT ![t] = p] /\ holders[t] = NoThread
  BY <1>0, <1>1, <1>2, HoldersFollow
<1>5. p \notin Told
  <2> SUFFICES ASSUME p \in Told
               PROVE  FALSE
    OBVIOUS
  <2>1. PICK S \in SUBSET Thread : p \in S /\ Manager!Ring(S)
    BY DEF DInv, Manager!AlarmsAreRings
  <2>2. Manager!BlockedBy(Wanted, p) \in S
    BY <2>1 DEF Manager!Ring, Manager!RingIn
  <2>3. Manager!BlockedBy(Wanted, p) = NoThread
    BY <1>1, <1>2, <1>3 DEF Manager!BlockedBy
  <2> QED
    BY <2>1, <2>2, <2>3, ThreadAssumption
<1>6. Told' = Told
  BY <1>0, <1>1, <1>5 DEF Told
<1>7. LoggedAfresh'
  BY <1>0, <1>1 DEF DInv, LoggedAfresh
<1> QED
  BY <1>2, <1>3, <1>4, <1>6, <1>7 DEF Manager!Grant

\* The pthread_mutex_unlock is a release by the holder.
LEMMA UnlockingIsRelease ==
  ASSUME DInv, TypeOK', NEW p \in Thread, UnlockRaw(p)
  PROVE  (\E t \in LockType : Manager!Release(p, t)) /\ LoggedAfresh'
<1> DEFINE t == mutex_type[p]
           holders == [u \in LockType |-> owner[u]]
<1>0. TypeOK /\ CallsTyped
  BY CallsInOrder DEF DInv
<1> USE DEF TypeOK
<1>1. pc[p] = "ul_raw" /\ owner[t] = p
  BY CallsInOrder DEF DInv, UnlockRaw
<1>2. /\ owner' = [owner EXCEPT ![t] = NoThread]
      /\ pc' = [pc EXCEPT ![p] = "ul_clear"] /\ UNCHANGED <<mutex_type, logged>>
  BY <1>1 DEF UnlockRaw, UnlockedBy, Goto
<1>3. t \in LockType
  BY <1>0, <1>1 DEF CallsTyped
<1>4. holders' = [holders EXCEPT ![t] = NoThread] /\ holders[t] = p
  BY <1>0, <1>1, <1>2, <1>3, HoldersFollow
<1>5. Wanted[p] = 0 /\ Wanted' = Wanted
  BY <1>0, <1>1, <1>2 DEF Wanted
<1>6. Told' = Told
  BY <1>0, <1>1, <1>2 DEF Told
<1>7. LoggedAfresh'
  BY <1>0, <1>1, <1>2 DEF DInv, LoggedAfresh
<1>8. Manager!Release(p, t)
  BY <1>4, <1>5, <1>6 DEF Manager!Release
<1> QED
  BY <1>3, <1>7, <1>8 DEF Manager!Release

\* Every step of a call is a step of the lock manager or none, and the set of
\* those told stays what the rings make it.
LEMMA StepsMap ==
  ASSUME ~StrayUnlock, MayDie = {}, Key \in Injection(Thread, Ident),
         DInv, OInv', [Next]_vars
  PROVE  [Manager!Next]_(Manager!vars) /\ LoggedAfresh' /\ \A p \in Thread : pc'[p] # "dead"
<1>0. TypeOK /\ TypeOK' /\ UNCHANGED g_beforelock
  BY ModeKept DEF DInv, OInv, IInv, Types
<1>1. ASSUME UNCHANGED vars
      PROVE  UNCHANGED Manager!vars /\ LoggedAfresh'
  BY <1>1 DEF vars, Manager!vars, Wanted, Told, DInv, LoggedAfresh
<1>2. \A p \in Thread : ~Kill(p) /\ ~RawTake(p)
  BY CallsInOrder DEF Kill, RawTake, DInv
<1>3. [Manager!Next]_(Manager!vars) /\ LoggedAfresh'
  <2>1. ASSUME NEW p \in Thread, \/ LockCheck(p) \/ TakeMutex(p) \/ UnlockRaw(p)
        PROVE  (Manager!Next \/ UNCHANGED Manager!vars) /\ LoggedAfresh'
    BY <1>0, <2>1, CheckIsRequest, TakingIsGrant, UnlockingIsRelease DEF Manager!Next
  <2> QED
    BY <1>0, <1>1, <1>2, <2>1, UnseenSteps DEF Next, Step, Call
<1>4. \A p \in Thread : pc'[p] # "dead"
  <2>1. UNCHANGED vars => \A q \in Thread : pc'[q] # "dead"
    BY DEF vars, DInv
  <2>2. ASSUME NEW p \in Thread, TakeGuard(p)
        PROVE  \A q \in Thread : pc'[q] # "dead"
    <3>1. /\ pc[p] \in WantsGuard
          /\ pc' = [pc EXCEPT ![p] = CASE pc[p] = "lk_guard" -> "lk_check"
                                       [] pc[p] = "lk_back" -> "lk_record"
                                       [] pc[p] = "ul_guard" -> "ul_raw"]
      BY <2>2 DEF TakeGuard, Goto
    <3>2. pc'[p] # "dead"
      BY <1>0, <3>1 DEF WantsGuard, TypeOK
    <3> QED
      BY <1>0, <3>1, <3>2 DEF DInv, TypeOK
  <2>3. ASSUME NEW p \in Thread,
               \/ RefuseType(p) \/ \E t \in LockType : CallLock(p, t) \/ CallUnlock(p, t)
        PROVE  \A q \in Thread : pc'[q] # "dead"
    BY <1>0, <2>3 DEF RefuseType, CallLock, CallUnlock, Goto, DInv, TypeOK
  <2>4. ASSUME NEW p \in Thread, LockCheck(p)
        PROVE  \A q \in Thread : pc'[q] # "dead"
    <3>1. pc' = [pc EXCEPT ![p] = "spin"] \/ pc' = [pc EXCEPT ![p] = "lk_wait"]
      BY <2>4 DEF LockCheck, Goto
    <3> QED
      BY <1>0, <3>1 DEF DInv, TypeOK
  <2>5. ASSUME NEW p \in Thread,
               \/ LockNoGetter(p) \/ LockRecord(p) \/ UnlockStranger(p) \/ UnlockClear(p)
               \/ TakeMutex(p) \/ UnlockRaw(p)
        PROVE  \A q \in Thread : pc'[q] # "dead"
    BY <1>0, <2>5 DEF LockNoGetter, LockRecord, UnlockStranger, UnlockClear, TakeMutex, UnlockRaw,
                      ReturnReleasing, Goto, DInv, TypeOK
  <2> QED
    BY <1>2, <2>1, <2>2, <2>3, <2>4, <2>5 DEF Next, Step, Call
<1> QED
  BY <1>3, <1>4

\* What such callers keep, the alarms of the lock manager among it.
LEMMA DInvAlways ==
  ASSUME ~StrayUnlock, MayDie = {}, Modes \subseteq {TRUE}, Key \in Injection(Thread, Ident),
         MAX_MUTEX_NUM >= MYMUTEX_TYPE_MAX - 1
  PROVE  Spec => []DInv
<1> DEFINE Here == LoggedAfresh /\ Manager!AlarmsAreRings /\ \A p \in Thread : pc[p] # "dead"
<1>1. Init => Here /\ Manager!Init
  <2>1. ASSUME Init
        PROVE  Wanted = [p \in Thread |-> 0] /\ Told = {}
               /\ [t \in LockType |-> owner[t]] = [t \in LockType |-> NoThread]
    BY <2>1 DEF Init, Wanted, Told, Mutex
  <2>2. Init => Manager!Init
    BY <2>1 DEF Manager!Init
  <2>3. ASSUME Init, NEW S \in SUBSET Thread, Manager!Ring(S)
        PROVE  FALSE
    BY <2>1, <2>3, ThreadAssumption DEF Manager!Ring, Manager!RingIn, Manager!BlockedBy
  <2>4. Init => Manager!AlarmsAreRings
    BY <2>1, <2>3 DEF Manager!AlarmsAreRings
  <2> QED
    BY <2>2, <2>4 DEF Init, LoggedAfresh
<1>2. TypeOK => Proved!TypeOK
  BY DEF TypeOK, Proved!TypeOK, Wanted, Told, Mutex, BEFORELOCK
<1>3. Proved!TypeOK /\ Proved!AlarmsAreRings /\ [Proved!Next]_(Proved!vars)
      => Proved!AlarmsAreRings'
  BY MarksApart, Proved!AlarmsStep
<1>4. (Manager!AlarmsAreRings <=> Proved!AlarmsAreRings)
      /\ ([Manager!Next]_(Manager!vars) <=> [Proved!Next]_(Proved!vars))
  BY SameManager
<1>5. (Manager!AlarmsAreRings)' <=> (Proved!AlarmsAreRings)'
  BY <1>4, PTL
<1>6. OInv /\ OInv' /\ Here /\ [Next]_vars => Here'
  <2> SUFFICES ASSUME OInv, OInv', Here, [Next]_vars
               PROVE  Here'
    OBVIOUS
  <2>1. DInv
    BY DEF DInv
  <2>2. [Manager!Next]_(Manager!vars) /\ LoggedAfresh' /\ \A p \in Thread : pc'[p] # "dead"
    BY <2>1, StepsMap
  <2>3. Proved!TypeOK
    BY <1>2 DEF OInv, IInv, Types
  <2>4. Proved!AlarmsAreRings'
    BY <1>3, <1>4, <2>2, <2>3
  <2> QED
    BY <1>5, <2>2, <2>4
<1>7. Spec => []OInv
  BY OwnersAlways
<1>8. OInv /\ Here => DInv
  BY DEF DInv
<1> QED
  BY <1>1, <1>6, <1>7, <1>8, PTL DEF Spec

\* mymutex.c implements the lock manager: for callers that pair their calls,
\* are not killed and share no identity, whatever the number of rows and
\* threads, if a row has a slot for every type.  A call that asks for what it
\* has already is such a caller too.
THEOREM CallsImplementManager ==
  ASSUME ~StrayUnlock, MayDie = {}, Modes \subseteq {TRUE}, Key \in Injection(Thread, Ident),
         MAX_MUTEX_NUM >= MYMUTEX_TYPE_MAX - 1
  PROVE  Spec => ImplementsLockManager
<1>1. Init => Manager!Init
  <2> SUFFICES ASSUME Init
               PROVE  Manager!Init
    OBVIOUS
  <2>1. Wanted = [p \in Thread |-> 0] /\ Told = {}
        /\ [t \in LockType |-> owner[t]] = [t \in LockType |-> NoThread]
    BY DEF Init, Wanted, Told, Mutex
  <2> QED
    BY <2>1 DEF Manager!Init
<1>2. DInv /\ DInv' /\ [Next]_vars => [Manager!Next]_(Manager!vars)
  BY StepsMap DEF DInv
<1> QED
  BY <1>1, <1>2, DInvAlways, PTL DEF Spec, ImplementsLockManager, Manager!Spec

----------------------------------------------------------------------------
(* What follows *)

\* For any number of threads and types: a mymutex.c whose steps are those of the
\* lock manager tells one member of each ring of blocked callers, and nobody
\* outside a ring (357-545).
THEOREM ImplementationAlarms == ImplementsLockManager => []AlarmsAreRings
<1>1. Proved!Spec => []Proved!AlarmsAreRings
  BY MarksApart, Proved!AlarmsCorrect
<1> QED
  BY <1>1, SameManager, PTL DEF ImplementsLockManager, AlarmsAreRings, Manager!Spec, Proved!Spec

\* And none of its steps takes a caller out of a ring it has run into (514-516).
THEOREM ImplementationRings == ImplementsLockManager => RingsStay
<1>1. Proved!Spec => Proved!RingsStay
  BY MarksApart, Proved!DeadlocksAreForever
<1>2. [\A S \in SUBSET Thread : Proved!Ring(S) => Proved!Ring(S)']_(Proved!vars)
      <=> [\A S \in SUBSET Thread : Manager!Ring(S) => Manager!Ring(S)']_(Manager!vars)
  BY DEF Manager!vars, Proved!vars, Manager!Ring, Proved!Ring, Manager!RingIn, Proved!RingIn,
         Manager!BlockedBy, Proved!BlockedBy
<1> QED
  BY <1>1, <1>2, SameManager, PTL
     DEF ImplementsLockManager, RingsStay, Manager!RingsStay, Proved!RingsStay, Manager!Spec,
         Proved!Spec

\* The alarms of the calls themselves: no false one and none missed.
THEOREM CallsAlarm ==
  ASSUME ~StrayUnlock, MayDie = {}, Modes \subseteq {TRUE}, Key \in Injection(Thread, Ident),
         MAX_MUTEX_NUM >= MYMUTEX_TYPE_MAX - 1
  PROVE  Spec => []AlarmsAreRings
BY CallsImplementManager, ImplementationAlarms, PTL

\* Their rings are for ever.
THEOREM CallsStayInRings ==
  ASSUME ~StrayUnlock, MayDie = {}, Modes \subseteq {TRUE}, Key \in Injection(Thread, Ident),
         MAX_MUTEX_NUM >= MYMUTEX_TYPE_MAX - 1
  PROVE  Spec => RingsStay
BY CallsImplementManager, ImplementationRings, PTL

\* In the words of mymutex.c: of the threads in a ring of blocking
\* pthread_mutex_locks one has logged the deadlock (357-545).
THEOREM DeadlocksReported ==
  ASSUME ~StrayUnlock, MayDie = {}, Modes \subseteq {TRUE}, Key \in Injection(Thread, Ident),
         MAX_MUTEX_NUM >= MYMUTEX_TYPE_MAX - 1
  PROVE  Spec => []RingReported
<1>1. DInv => RingReported
  <2> SUFFICES ASSUME DInv, NEW S \in SUBSET Thread, Ring(S)
               PROVE  \E p \in S : "deadlock" \in logged[p]
    BY DEF RingReported
  <2>1. TypeOK /\ CallsTyped
    BY CallsInOrder DEF DInv
  <2>2. \A q \in Thread : Manager!BlockedBy(Wanted, q) = Blocks(q)
    <3> SUFFICES ASSUME NEW q \in Thread
                 PROVE  Manager!BlockedBy(Wanted, q) = Blocks(q)
      OBVIOUS
    <3>1. CASE pc[q] = "lk_wait"
      BY <2>1, <3>1, TypesAreNotZero DEF CallsTyped, Wanted, Manager!BlockedBy, Blocks
    <3>2. CASE pc[q] # "lk_wait"
      BY <3>2 DEF Wanted, Manager!BlockedBy, Blocks
    <3> QED
      BY <3>1, <3>2
  <2>3. Manager!Ring(S)
    BY <2>2 DEF Ring, Manager!Ring, Manager!RingIn
  <2>4. S \cap Told # {}
    BY <2>3 DEF DInv, Manager!AlarmsAreRings
  <2> QED
    BY <2>4 DEF Told
<1> QED
  BY <1>1, DInvAlways, PTL

============================================================================
