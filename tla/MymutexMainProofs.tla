-------------------------- MODULE MymutexMainProofs --------------------------
(***************************************************************************)
(* Proofs about MymutexMain, for any number of processes and any texts of  *)
(* calls: the release finds nobody in a call, and processes that keep to   *)
(* the configured order are never blamed.                                  *)
(***************************************************************************)
EXTENDS MymutexMain, MymutexProofs

\* What is there to hold the place of every process in its text and in mylog.
Placed ==
    /\ Types
    /\ Text \in Texts
    /\ at \in [Thread -> Nat] /\ told \in [Thread -> Nat]
    /\ logpc \in [L!Process -> L!PC]

LEMMA ProcessesAre == L!Process = Thread \cup {logger}
BY TextAssumption DEF L!Process

\* The operand of a call on a mutex is a lockable type.
LEMMA OperandTyped ==
  ASSUME Placed, NEW p \in Thread, Comes(p, "lock") \/ Comes(p, "unlock")
  PROVE  Operand(p) \in LockType
<1> DEFINE call == Text[p][at[p] + 1]
           Calling == [op : {"lock", "unlock"}, on : LockType]
           Other == [op : STRING \ {"lock", "unlock"}, on : Thread \cup LockType]
<1>1. Text[p] \in Seq(Calling \cup Other)
  BY TextAssumption DEF Placed
<1>2. at[p] \in Nat /\ at[p] < Len(Text[p])
  BY DEF Placed, Comes
<1>3. at[p] + 1 \in DOMAIN Text[p]
  BY <1>1, <1>2
<1>4. call \in Calling \cup Other
  BY <1>1, <1>3
<1>5. call.op \in {"lock", "unlock"}
  BY DEF Comes
<1> QED
  BY <1>4, <1>5 DEF Operand

\* Every step is a step of the lock manager, or one that it does not see.
LEMMA StepsOfManager ==
  ASSUME Placed, [MainNext]_mainVars
  PROVE  [Next]_vars
<1>1. UNCHANGED vars => [Next]_vars
  OBVIOUS
<1>2. ASSUME NEW p \in Thread, Proceed(p)
      PROVE  [Next]_vars
  <2>1. UNCHANGED g_beforelock
    BY <1>2 DEF Proceed
  <2>2. CASE Stretch(p)
    BY <2>1, <2>2 DEF Stretch, Next
  <2>3. CASE DoLock(p)
    BY <2>1, <2>3, OperandTyped DEF DoLock, Next, Call
  <2>4. CASE DoUnlock(p)
    BY <2>1, <2>4, OperandTyped DEF DoUnlock, Next, Call
  <2>5. CASE Die(p)
    BY <2>1, <2>5 DEF Die, Next
  <2>6. CASE \/ Say(p) \/ Sending(p) \/ DoLog(p) \/ DoKill(p) \/ DoWait(p) \/ DoRelease(p)
             \/ DoReleaseLog(p) \/ ReleasesLog(p)
    BY <2>6 DEF Say, Sending, DoLog, DoKill, DoWait, DoRelease, DoReleaseLog, ReleasesLog
  <2> QED
    BY <1>2, <2>2, <2>3, <2>4, <2>5, <2>6 DEF Proceed, Calls
<1>3. LoggerRuns => UNCHANGED vars
  BY DEF LoggerRuns
<1> QED
  BY <1>1, <1>2, <1>3 DEF MainNext, mainVars

----------------------------------------------------------------------------
(* Where the processes are *)

\* A step inside a call is of a process that is in one, and moves nobody else.
LEMMA OwnCall ==
  ASSUME TypeOK, NEW p \in Thread, Step(p)
  PROVE  pc[p] \notin {"idle", "dead"} /\ \A q \in Thread \ {p} : pc'[q] = pc[q]
<1> USE DEF TypeOK, Goto, ReturnReleasing
<1>1. CASE RawTake(p) \/ TakeGuard(p) \/ TakeMutex(p)
  BY <1>1 DEF RawTake, TakeGuard, TakeMutex, WantsGuard
<1>2. CASE LockNoGetter(p) \/ LockCheck(p) \/ LockRecord(p)
  BY <1>2 DEF LockNoGetter, LockCheck, LockRecord
<1>3. CASE UnlockStranger(p) \/ UnlockRaw(p) \/ UnlockClear(p)
  BY <1>3 DEF UnlockStranger, UnlockRaw, UnlockClear
<1> QED
  BY <1>1, <1>2, <1>3 DEF Step

\* The log has moved p and nobody else.
LogMoves(p) ==
    /\ logpc' \in [L!Process -> L!PC]
    /\ \A q \in L!Process \ {p} : logpc'[q] = logpc[q]

\* The steps of a process in mylog and in releaselog.
LEMMA OwnLog ==
  ASSUME logpc \in [L!Process -> L!PC], NEW p \in L!Process
  PROVE  /\ \A t : L!Mylog(p, t) => LogMoves(p) /\ logpc[p] = "idle" /\ logpc'[p] = "send"
         /\ L!SenderStep(p) => LogMoves(p) /\ logpc[p] = "send" /\ logpc'[p] = "idle"
         /\ L!KillLogger(p) => LogMoves(p) /\ logpc'[p] = "rl_wait"
         /\ L!ReleaseStep(p) => /\ LogMoves(p) /\ logpc[p] \in {"rl_wait", "rl_remove"}
                                /\ logpc'[p] \in {"rl_remove", "released"}
         /\ L!Die(p) \/ L!Hangup(p) => LogMoves(p) /\ logpc'[p] = "dead"
         /\ L!WriterStep(p) => LogMoves(p)
<1> USE DEF L!PC, L!InLoop, L!InMylogd, L!InRelease
<1>1. ASSUME NEW l \in L!PC, L!Goto(p, l)
      PROVE  LogMoves(p) /\ logpc'[p] = l
  BY <1>1 DEF L!Goto, LogMoves
<1>2. ASSUME NEW t, L!Mylog(p, t)
      PROVE  LogMoves(p) /\ logpc[p] = "idle" /\ logpc'[p] = "send"
  <2>1. L!Goto(p, "send") /\ logpc[p] = "idle"
    BY <1>2 DEF L!Mylog, L!Compose
  <2> QED
    BY <1>1, <2>1
<1>3. ASSUME L!SenderStep(p)
      PROVE  LogMoves(p) /\ logpc[p] = "send" /\ logpc'[p] = "idle"
  <2>1. L!Goto(p, "idle") /\ logpc[p] = "send"
    BY <1>3 DEF L!SenderStep, L!Send, L!SendFails
  <2> QED
    BY <1>1, <2>1
<1>4. ASSUME L!KillLogger(p)
      PROVE  LogMoves(p) /\ logpc'[p] = "rl_wait"
  BY <1>1, <1>4 DEF L!KillLogger
<1>5. ASSUME L!ReleaseStep(p)
      PROVE  /\ LogMoves(p) /\ logpc[p] \in {"rl_wait", "rl_remove"}
             /\ logpc'[p] \in {"rl_remove", "released"}
  BY <1>1, <1>5 DEF L!ReleaseStep, L!WaitChild, L!RemoveQueue
<1>6. ASSUME L!Die(p) \/ L!Hangup(p)
      PROVE  LogMoves(p) /\ logpc'[p] = "dead"
  BY <1>6 DEF L!Hangup, L!Die, LogMoves
<1>7. ASSUME L!WriterStep(p)
      PROVE  LogMoves(p)
  <2>1. \/ L!Goto(p, "take")
        \/ L!Goto(p, IF logpc[p] = "take" THEN "write" ELSE "write_direct")
        \/ L!Goto(p, IF logpc[p] = "write" THEN "recv" ELSE "idle")
    BY <1>7 DEF L!WriterStep, L!Receive, L!TakeMutex, L!Write, L!OpenFails, L!Finish
  <2> DEFINE l == IF logpc[p] = "take" THEN "write" ELSE "write_direct"
             m == IF logpc[p] = "write" THEN "recv" ELSE "idle"
  <2>2. l \in L!PC /\ m \in L!PC
    OBVIOUS
  <2> HIDE DEF l, m
  <2>3. L!Goto(p, "take") \/ L!Goto(p, l) \/ L!Goto(p, m)
    BY <2>1 DEF l, m
  <2> QED
    BY <1>1, <2>2, <2>3
<1> QED
  BY <1>2, <1>3, <1>4, <1>5, <1>6, <1>7

\* Nobody's step is felt by another but in what they share.
LEMMA OthersStay ==
  ASSUME Placed, NEW p \in Thread, Proceed(p)
  PROVE  /\ Text' = Text
         /\ \A q \in Thread \ {p} : UNCHANGED <<pc[q], logpc[q], at[q], told[q]>>
         /\ at' \in [Thread -> Nat] /\ told' \in [Thread -> Nat]
         /\ logpc' \in [L!Process -> L!PC]
<1> USE DEF Placed, own
<1>1. p \in L!Process /\ TypeOK /\ logpc \in [L!Process -> L!PC]
  BY ProcessesAre DEF Types
<1> DEFINE Fine ==
             /\ Text' = Text
             /\ \A q \in Thread \ {p} : UNCHANGED <<pc[q], logpc[q], at[q], told[q]>>
             /\ at' \in [Thread -> Nat] /\ told' \in [Thread -> Nat]
             /\ logpc' \in [L!Process -> L!PC]
<1>2. ASSUME LogMoves(p),
             UNCHANGED <<pc, at, Text>>, told' \in [Thread -> Nat],
             \A q \in Thread \ {p} : told'[q] = told[q]
      PROVE  Fine
  BY <1>1, <1>2, ProcessesAre DEF LogMoves
<1>3. CASE Stretch(p)
  <2>1. \A q \in Thread \ {p} : pc'[q] = pc[q]
    BY <1>1, <1>3, OwnCall DEF Stretch
  <2>2. /\ UNCHANGED <<Text, at, logpc>> /\ told' \in [Thread -> Nat]
        /\ \A q \in Thread \ {p} : told'[q] = told[q]
    BY <1>3 DEF Stretch, logVars
  <2> QED
    BY <1>1, <2>1, <2>2
<1>4. CASE Say(p)
  <2>1. LogMoves(p)
    <3>1. PICK all \in {ToSay(p)} : told[p] < Len(all) /\ L!Mylog(p, all[told[p] + 1])
      BY <1>4 DEF Say
    <3> QED
      BY <1>1, <3>1, OwnLog
  <2>2. told' = [told EXCEPT ![p] = @ + 1] /\ UNCHANGED <<pc, at, Text>>
    BY <1>4 DEF Say, vars
  <2>3. told' \in [Thread -> Nat] /\ \A q \in Thread \ {p} : told'[q] = told[q]
    BY <2>2
  <2> QED
    BY <1>2, <2>1, <2>2, <2>3
<1>5. CASE Sending(p) \/ (p = Parent /\ ReleasesLog(p))
  <2>1. LogMoves(p)
    BY <1>1, <1>5, OwnLog DEF Sending, ReleasesLog
  <2>2. UNCHANGED <<pc, at, Text, told>>
    BY <1>5 DEF Sending, ReleasesLog, vars
  <2> QED
    BY <1>2, <2>1, <2>2
<1>6. CASE Calls(p)
  <2>1. UNCHANGED Text
    BY <1>6 DEF Calls
  <2>2. ASSUME at' = [at EXCEPT ![p] = @ + 1]
        PROVE  at' \in [Thread -> Nat] /\ \A q \in Thread \ {p} : at'[q] = at[q]
    BY <2>2
  <2>3. ASSUME told' = [told EXCEPT ![p] = 0]
        PROVE  told' \in [Thread -> Nat] /\ \A q \in Thread \ {p} : told'[q] = told[q]
    BY <2>3
  <2>4. CASE DoLock(p) \/ DoUnlock(p)
    <3>1. UNCHANGED logpc /\ at' = [at EXCEPT ![p] = @ + 1] /\ told' = [told EXCEPT ![p] = 0]
      BY <2>4 DEF DoLock, DoUnlock, logVars, Comes
    <3>2. \A q \in Thread \ {p} : pc'[q] = pc[q]
      BY <1>1, <2>4 DEF DoLock, DoUnlock, CallLock, CallUnlock, Goto, TypeOK
    <3> QED
      BY <1>1, <2>1, <2>2, <2>3, <3>1, <3>2
  <2>5. CASE DoLog(p) \/ DoReleaseLog(p)
    <3>1. LogMoves(p)
      BY <1>1, <2>5, OwnLog DEF DoLog, DoReleaseLog
    <3>2. UNCHANGED pc /\ at' = [at EXCEPT ![p] = @ + 1] /\ told' = [told EXCEPT ![p] = 0]
      BY <2>5 DEF DoLog, DoReleaseLog, vars, Comes
    <3> QED
      BY <1>1, <2>1, <2>2, <2>3, <3>1, <3>2, ProcessesAre DEF LogMoves
  <2>6. CASE DoKill(p) \/ DoWait(p) \/ DoRelease(p)
    <3>1. /\ UNCHANGED <<pc, logpc>> /\ at' = [at EXCEPT ![p] = @ + 1]
          /\ told' = [told EXCEPT ![p] = 0]
      BY <2>6 DEF DoKill, DoWait, DoRelease, vars, logVars, Comes
    <3> QED
      BY <1>1, <2>1, <2>2, <2>3, <3>1
  <2>7. CASE Die(p)
    <3>1. LogMoves(p)
      BY <1>1, <2>7, OwnLog DEF Die
    <3>2. UNCHANGED <<at, told>> /\ pc' = [pc EXCEPT ![p] = "dead"]
      BY <2>7 DEF Die, Kill, Goto
    <3> QED
      BY <1>1, <2>1, <3>1, <3>2, ProcessesAre DEF TypeOK, LogMoves
  <2> QED
    BY <1>6, <2>4, <2>5, <2>6, <2>7 DEF Calls
<1> QED
  BY <1>3, <1>4, <1>5, <1>6 DEF Proceed

\* The logger moves nobody but itself.
LEMMA LoggerApart ==
  ASSUME Placed, LoggerRuns
  PROVE  /\ UNCHANGED <<vars, own, told>>
         /\ \A q \in Thread : logpc'[q] = logpc[q]
         /\ logpc' \in [L!Process -> L!PC]
<1>1. logger \in L!Process /\ logger \notin Thread
  BY ProcessesAre, TextAssumption
<1>2. LogMoves(logger)
  BY <1>1, OwnLog DEF LoggerRuns, Placed
<1> QED
  BY <1>1, <1>2, ProcessesAre DEF LoggerRuns, LogMoves

LEMMA PlacedAlways == MainSpec => []Placed /\ [][Next]_vars
<1>1. MainInit => Placed
  <2> SUFFICES ASSUME MainInit
               PROVE  Placed
    OBVIOUS
  <2>1. Types
    BY SizeAssumption, ThreadAssumption
       DEF MainInit, Init, Types, CallsTyped, TypeOK, Row, EmptyRow, Mutex, BEFORELOCK, PC, Getter
  <2> QED
    BY <2>1 DEF MainInit, Placed, L!PC, L!InLoop
<1>2. ASSUME Placed, [MainNext]_mainVars
      PROVE  Placed' /\ [Next]_vars
  <2>1. [Next]_vars
    BY <1>2, StepsOfManager
  <2>2. Types'
    BY <1>2, <2>1, TypesStep DEF Placed
  <2>3. CASE UNCHANGED mainVars
    BY <1>2, <2>2, <2>3 DEF mainVars, own, logVars, Placed
  <2>4. CASE LoggerRuns
    BY <1>2, <2>2, <2>4, LoggerApart DEF Placed, own
  <2>5. ASSUME NEW p \in Thread, Proceed(p)
        PROVE  Placed'
    BY <1>2, <2>2, <2>5, OthersStay DEF Placed
  <2> QED
    BY <1>2, <2>1, <2>3, <2>4, <2>5 DEF MainNext
<1> QED
  BY <1>1, <1>2, PTL DEF MainSpec

\* The processes, their waits for the queue included, are callers of mymutex.c like
\* any others: what is proved of Mymutex holds of them.
THEOREM ProcessesAreCallers == MainSpec => Spec
<1>1. MainInit => Init
  BY DEF MainInit
<1> QED
  BY <1>1, PlacedAlways, PTL DEF MainSpec, Spec

----------------------------------------------------------------------------
(* The release *)

\* A thread that is in no call, and has none on a mutex before it, logs nothing.
LEMMA NothingToSay ==
  ASSUME NEW p \in Thread,
         pc[p] = "dead" \/ (pc[p] = "idle" /\ NextOp(p) \notin {"lock", "unlock"})
  PROVE  ToSay(p) = <<>>
<1>1. CASE pc[p] = "dead"
  BY <1>1, Zenon DEF ToSay
<1>2. CASE pc[p] = "idle" /\ NextOp(p) \notin {"lock", "unlock"}
  <2>1. ToSay(p) = Note(NextOp(p) \in {"lock", "unlock"}, "trace")
    BY <1>2, Zenon DEF ToSay
  <2> QED
    BY <1>2, <2>1 DEF Note
<1> QED
  BY <1>1, <1>2

\* The next call of a text is made between two calls, and only by a step for it.
LEMMA NextCall ==
  ASSUME Placed, NEW p \in Thread, NEW op, Comes(p, op)
  PROVE  /\ pc[p] = "idle" /\ logpc[p] = "idle"
         /\ at[p] + 1 \in 1 .. Len(Text[p]) /\ Text[p][at[p] + 1].op = op
         /\ at'[p] = at[p] + 1
<1>1. Len(Text[p]) \in Nat
  BY TextAssumption DEF Placed
<1> QED
  BY <1>1 DEF Placed, Comes, SaidAll

\* Who has died or come to the end of its text stays so.
LEMMA GoneStays ==
  ASSUME Placed, [MainNext]_mainVars, NEW p \in Thread, Gone(p)
  PROVE  Gone(p)'
<1> USE DEF Gone, Finished
<1>1. ASSUME UNCHANGED <<pc[p], logpc[p], at[p], Text>>
      PROVE  Gone(p)'
  BY <1>1
<1>2. CASE UNCHANGED mainVars
  BY <1>1, <1>2 DEF mainVars, vars, own, logVars
<1>3. CASE LoggerRuns
  BY <1>1, <1>3, LoggerApart DEF vars, own
<1>4. ASSUME NEW q \in Thread \ {p}, Proceed(q)
      PROVE  Gone(p)'
  BY <1>1, <1>4, OthersStay
<1>5. CASE Proceed(p)
  <2>1. pc[p] \in {"idle", "dead"} /\ told[p] \in Nat /\ TypeOK
    BY DEF Placed, Types
  <2>2. ~Stretch(p)
    BY <2>1, OwnCall DEF Stretch
  <2>3. ~Say(p)
    <3>1. ToSay(p) = <<>>
      <4>1. Len(Text[p]) \in Nat
        BY TextAssumption DEF Placed
      <4>2. pc[p] = "idle" => NextOp(p) \notin {"lock", "unlock"}
        BY <4>1 DEF NextOp
      <4> QED
        BY <2>1, <4>2, NothingToSay
    <3>2. ASSUME Say(p)
          PROVE  FALSE
      <4>1. PICK all \in {ToSay(p)} : told[p] < Len(all)
        BY <3>2 DEF Say
      <4>2. Len(all) = 0
        BY <3>1, <4>1
      <4> QED
        BY <2>1, <4>1, <4>2
    <3> QED
      BY <3>2
  <2>4. ASSUME NEW op, Comes(p, op)
        PROVE  FALSE
    <3>1. Len(Text[p]) \in Nat
      BY TextAssumption DEF Placed
    <3> QED
      BY <2>4, <3>1 DEF Comes, Placed
  <2>5. CASE Sending(p) \/ (p = Parent /\ ReleasesLog(p))
    <3>1. p \in L!Process /\ logpc \in [L!Process -> L!PC]
      BY ProcessesAre DEF Placed
    <3>2. UNCHANGED <<pc, at, Text>>
      BY <2>5 DEF Sending, ReleasesLog, vars, own
    <3>3. logpc'[p] # "send"
      BY <2>5, <3>1, OwnLog DEF Sending, ReleasesLog
    <3> QED
      BY <3>2, <3>3
  <2>6. CASE Die(p)
    BY <2>1, <2>6 DEF Die, Kill, Goto, TypeOK
  <2>7. ~DoLock(p) /\ ~DoUnlock(p) /\ ~DoLog(p) /\ ~DoKill(p) /\ ~DoWait(p) /\ ~DoRelease(p)
        /\ ~DoReleaseLog(p)
    BY <2>4 DEF DoLock, DoUnlock, DoLog, DoKill, DoWait, DoRelease, DoReleaseLog
  <2> QED
    BY <1>5, <2>2, <2>3, <2>5, <2>6, <2>7 DEF Proceed, Calls
<1> QED
  BY <1>2, <1>3, <1>4, <1>5 DEF MainNext

\* The parent has made the call c, has begun to release.
Made(c) == \E i \in 1 .. at[Parent] : Text[Parent][i] = c
Ending == \E i \in 1 .. at[Parent] : Text[Parent][i].op \in EndCalls

WaitedFor == \A p \in Thread :
    Text[p] = <<>> \/ Made([op |-> "wait", on |-> p]) => Gone(p)

\* Nothing is released before the parent comes to its last calls, and then it is
\* in none of the others.
EndingLast ==
    /\ released \/ ~exists \/ logpc[Parent] \in {"rl_wait", "rl_remove"} => Ending
    /\ Ending => pc[Parent] \in {"idle", "dead"} /\ logpc[Parent] # "send"

InText == \A p \in Thread : at[p] <= Len(Text[p])

AInv == Placed /\ InText /\ WaitedFor /\ EndingLast

\* A call that is no release comes before all that are.
LEMMA ReleaseIsLast ==
  ASSUME Placed, WaitsForAll(Text), NEW p \in Thread, NEW op, Comes(p, op), Text' = Text
  PROVE  /\ op \in EndCalls => p = Parent
         /\ op \notin EndCalls /\ p = Parent => ~Ending /\ ~Ending'
<1>1. /\ at[p] + 1 \in 1 .. Len(Text[p]) /\ Text[p][at[p] + 1].op = op
      /\ at'[p] = at[p] + 1 /\ at[p] \in Nat /\ Len(Text[p]) \in Nat /\ Text' = Text
  BY NextCall, TextAssumption DEF Placed, Comes
<1>2. op \in EndCalls => p = Parent
  BY <1>1 DEF WaitsForAll
<1>3. ASSUME op \notin EndCalls, p = Parent
      PROVE  ~Ending /\ ~Ending'
  <2>1. ASSUME NEW i \in 1 .. at[p], Text[p][i].op \in EndCalls
        PROVE  FALSE
    <3>1. i \in 1 .. Len(Text[p]) /\ at[p] + 1 \in i .. Len(Text[p])
      BY <1>1, <2>1
    <3>2. Text[p][at[p] + 1].op \in EndCalls
      BY <2>1, <3>1 DEF WaitsForAll
    <3> QED
      BY <1>1, <1>3, <3>2
  <2>2. \A i \in 1 .. at'[p] : i \in 1 .. at[p] \/ i = at[p] + 1
    BY <1>1
  <2> QED
    BY <1>1, <1>3, <2>1, <2>2 DEF Ending
<1> QED
  BY <1>2, <1>3

\* Once it releases, the parent has no calls on a mutex before it.
LEMMA ReleaseIsSilent ==
  ASSUME Placed, WaitsForAll(Text), Ending
  PROVE  NextOp(Parent) \notin {"lock", "unlock"}
<1> SUFFICES ASSUME at[Parent] < Len(Text[Parent])
             PROVE  Text[Parent][at[Parent] + 1].op \in EndCalls
  BY DEF NextOp, EndCalls
<1>1. at[Parent] \in Nat /\ Len(Text[Parent]) \in Nat /\ Parent \in Thread
  BY TextAssumption DEF Placed
<1>2. PICK i \in 1 .. at[Parent] : Text[Parent][i].op \in EndCalls
  BY DEF Ending
<1>3. i \in 1 .. Len(Text[Parent]) /\ at[Parent] + 1 \in i .. Len(Text[Parent])
  BY <1>1
<1> QED
  BY <1>1, <1>2, <1>3 DEF WaitsForAll

\* exists and released are written by the release alone.
LEMMA ReleaseWrites ==
  ASSUME NEW p \in Thread, Proceed(p)
  PROVE  /\ released' = released \/ DoRelease(p)
         /\ exists' = exists \/ (p = Parent /\ ReleasesLog(p))
<1>1. ASSUME L!SenderStep(p) \/ L!KillLogger(p) \/ L!Die(p) \/ \E t : L!Mylog(p, t)
      PROVE  exists' = exists
  BY <1>1 DEF L!SenderStep, L!Send, L!SendFails, L!KillLogger, L!Die, L!Mylog, L!Compose
<1>2. CASE Stretch(p)
  BY <1>2 DEF Stretch, own, logVars
<1>3. CASE Say(p)
  <2>1. \E t : L!Mylog(p, t)
    BY <1>3 DEF Say
  <2> QED
    BY <1>1, <1>3, <2>1 DEF Say, own
<1>4. CASE Sending(p) \/ (p = Parent /\ ReleasesLog(p))
  BY <1>1, <1>4 DEF Sending, ReleasesLog, own
<1>5. CASE DoLock(p) \/ DoUnlock(p) \/ DoKill(p) \/ DoWait(p) \/ DoRelease(p)
  BY <1>5 DEF DoLock, DoUnlock, DoKill, DoWait, DoRelease, logVars
<1>6. CASE DoLog(p) \/ DoReleaseLog(p) \/ Die(p)
  BY <1>1, <1>6 DEF DoLog, DoReleaseLog, Die
<1> QED
  BY <1>2, <1>3, <1>4, <1>5, <1>6 DEF Proceed, Calls

LEMMA EndingLastStep ==
  ASSUME AInv, WaitsForAll(Text), [MainNext]_mainVars
  PROVE  EndingLast'
<1> USE DEF AInv
<1> DEFINE Same == UNCHANGED <<Text, at[Parent], pc[Parent], logpc[Parent], released, exists>>
<1>1. ASSUME Same
      PROVE  EndingLast'
  BY <1>1 DEF EndingLast, Ending
<1>2. CASE UNCHANGED mainVars
  BY <1>1, <1>2 DEF mainVars, vars, own, logVars
<1>3. CASE LoggerRuns
  <2>1. exists' = exists
    BY <1>3 DEF LoggerRuns, L!WriterStep, L!Hangup, L!Die, L!Receive, L!TakeMutex, L!Write,
                L!OpenFails, L!Finish
  <2> QED
    BY <1>1, <1>3, <2>1, LoggerApart, TextAssumption DEF vars, own
<1>4. ASSUME NEW p \in Thread \ {Parent}, Proceed(p)
      PROVE  EndingLast'
  <2>1. ~DoRelease(p)
    BY <1>4, ReleaseIsLast, OthersStay DEF DoRelease, EndCalls
  <2> QED
    BY <1>1, <1>4, <2>1, OthersStay, ReleaseWrites, TextAssumption
<1>5. CASE Proceed(Parent)
  <2>1. /\ Parent \in Thread /\ Parent \in L!Process /\ TypeOK
        /\ logpc \in [L!Process -> L!PC] /\ told[Parent] \in Nat /\ Text' = Text
    BY <1>5, ProcessesAre, TextAssumption, OthersStay DEF Placed, Types
  <2>2. ASSUME UNCHANGED at
        PROVE  Ending' = Ending
    BY <2>1, <2>2 DEF Ending
  <2>3. ASSUME ~Ending, ~Ending', released' = released, exists' = exists,
               logpc'[Parent] \notin {"rl_wait", "rl_remove"}
        PROVE  EndingLast'
    BY <2>3 DEF EndingLast
  <2>4. CASE Stretch(Parent)
    <3>1. ~Ending /\ UNCHANGED <<at, logpc, released, exists>>
      BY <2>1, <2>4, OwnCall DEF Stretch, own, logVars, EndingLast
    <3> QED
      BY <2>2, <2>3, <3>1 DEF EndingLast
  <2>5. CASE Say(Parent)
    <3>1. PICK all \in {ToSay(Parent)} : told[Parent] < Len(all) /\ L!Mylog(Parent, all[told[Parent] + 1])
      BY <2>5 DEF Say
    <3>2. ASSUME Ending
          PROVE  Len(all) = 0
      <4>1. pc[Parent] \in {"idle", "dead"}
        BY <3>2 DEF EndingLast
      <4> QED
        BY <2>1, <3>1, <3>2, <4>1, NothingToSay, ReleaseIsSilent
    <3>3. ~Ending
      BY <2>1, <3>1, <3>2
    <3>4. logpc'[Parent] = "send"
      BY <2>1, <3>1, OwnLog
    <3>5. UNCHANGED <<at, released, exists>>
      BY <2>5, <3>1 DEF Say, own, L!Mylog, L!Compose
    <3> QED
      BY <2>2, <2>3, <3>3, <3>4, <3>5
  <2>6. CASE Sending(Parent)
    <3>1. logpc[Parent] = "send" /\ logpc'[Parent] = "idle"
      BY <2>1, <2>6, OwnLog DEF Sending
    <3>2. UNCHANGED <<at, released, exists>>
      BY <2>6 DEF Sending, own, L!SenderStep, L!Send, L!SendFails
    <3> QED
      BY <2>2, <2>3, <3>1, <3>2 DEF EndingLast
  <2>7. CASE DoLock(Parent) \/ DoUnlock(Parent) \/ DoKill(Parent) \/ DoWait(Parent)
    <3>1. ~Ending /\ ~Ending'
      BY <2>1, <2>7, ReleaseIsLast DEF DoLock, DoUnlock, DoKill, DoWait, EndCalls
    <3>2. UNCHANGED <<logpc, released, exists>>
      BY <2>7 DEF DoLock, DoUnlock, DoKill, DoWait, logVars
    <3> QED
      BY <2>3, <3>1, <3>2 DEF EndingLast
  <2>8. CASE DoLog(Parent)
    <3>1. Comes(Parent, "mylog") /\ L!Mylog(Parent, "trace")
      BY <2>8 DEF DoLog
    <3>2. ~Ending /\ ~Ending'
      BY <2>1, <3>1, ReleaseIsLast DEF EndCalls
    <3>3. logpc'[Parent] = "send"
      BY <2>1, <3>1, OwnLog
    <3>4. UNCHANGED <<released, exists>>
      BY <2>8, <3>1 DEF DoLog, L!Mylog, L!Compose
    <3> QED
      BY <2>3, <3>2, <3>3, <3>4
  <2>9. CASE DoRelease(Parent) \/ DoReleaseLog(Parent)
    <3>1. PICK op \in EndCalls : Comes(Parent, op)
      BY <2>9 DEF DoRelease, DoReleaseLog, EndCalls
    <3>2. /\ pc[Parent] = "idle" /\ logpc[Parent] = "idle" /\ at[Parent] \in Nat
          /\ at'[Parent] = at[Parent] + 1 /\ Text[Parent][at[Parent] + 1].op = op
      BY <2>1, <3>1, NextCall DEF Placed
    <3>3. Ending'
      BY <2>1, <3>1, <3>2 DEF Ending
    <3>4. pc' = pc /\ logpc'[Parent] \in {"idle", "rl_wait"}
      BY <2>1, <2>9, <3>2, OwnLog DEF DoRelease, DoReleaseLog, vars, logVars
    <3> QED
      BY <3>2, <3>3, <3>4 DEF EndingLast
  <2>10. CASE Die(Parent)
    <3>1. UNCHANGED <<at, released, exists>> /\ pc'[Parent] = "dead" /\ logpc'[Parent] = "dead"
      BY <2>1, <2>10, OwnLog DEF Die, Kill, Goto, TypeOK, L!Die
    <3> QED
      BY <2>2, <3>1 DEF EndingLast
  <2>11. CASE ReleasesLog(Parent)
    <3>1. /\ logpc[Parent] \in {"rl_wait", "rl_remove"}
          /\ logpc'[Parent] \in {"rl_remove", "released"}
      BY <2>1, <2>11, OwnLog DEF ReleasesLog
    <3>2. UNCHANGED <<at, pc, released>>
      BY <2>11 DEF ReleasesLog, own, vars
    <3> QED
      BY <2>2, <3>1, <3>2 DEF EndingLast
  <2> QED
    BY <1>5, <2>4, <2>5, <2>6, <2>7, <2>8, <2>9, <2>10, <2>11 DEF Proceed, Calls
<1> QED
  BY <1>2, <1>3, <1>4, <1>5 DEF MainNext

LEMMA WaitedForStep ==
  ASSUME AInv, [MainNext]_mainVars
  PROVE  InText' /\ WaitedFor'
<1> USE DEF AInv
<1>1. ASSUME UNCHANGED <<Text, at>>
      PROVE  InText' /\ WaitedFor'
  BY <1>1, GoneStays DEF InText, WaitedFor, Made
<1>2. CASE UNCHANGED mainVars
  BY <1>1, <1>2 DEF mainVars, own
<1>3. CASE LoggerRuns
  BY <1>1, <1>3 DEF LoggerRuns, own
<1>4. ASSUME NEW p \in Thread, NEW op, Comes(p, op), Proceed(p)
      PROVE  InText' /\ WaitedFor'
  <2>1. /\ at[p] + 1 \in 1 .. Len(Text[p]) /\ Text[p][at[p] + 1].op = op
        /\ at'[p] = at[p] + 1 /\ at[p] \in Nat /\ Len(Text[p]) \in Nat
        /\ Text' = Text /\ \A q \in Thread \ {p} : at'[q] = at[q]
    BY <1>4, NextCall, OthersStay, TextAssumption DEF Placed
  <2>2. InText'
    BY <2>1 DEF InText
  <2>3. ASSUME NEW q \in Thread, Made([op |-> "wait", on |-> q])', ~Made([op |-> "wait", on |-> q])
        PROVE  Gone(q)
    <3>1. p = Parent
      BY <2>1, <2>3, TextAssumption DEF Made
    <3>2. PICK i \in 1 .. at'[p] : Text[p][i] = [op |-> "wait", on |-> q]
      BY <2>1, <2>3, <3>1 DEF Made
    <3>3. i \notin 1 .. at[p]
      BY <2>3, <3>1, <3>2 DEF Made
    <3>4. i = at[p] + 1
      BY <2>1, <3>2, <3>3
    <3>5. op = "wait" /\ Operand(p) = q
      BY <2>1, <3>2, <3>4 DEF Operand
    <3>6. \A o : Comes(p, o) => o = "wait"
      BY <2>1, <3>5 DEF Comes
    <3>7. ~DoLock(p) /\ ~DoUnlock(p) /\ ~DoLog(p) /\ ~DoKill(p) /\ ~DoRelease(p) /\ ~DoReleaseLog(p)
      BY <3>6 DEF DoLock, DoUnlock, DoLog, DoKill, DoRelease, DoReleaseLog
    <3>8. at' # at
      BY <2>1
    <3>9. DoWait(p)
      BY <1>4, <3>7, <3>8 DEF Proceed, Calls, Stretch, Say, Sending, ReleasesLog, Die, own
    <3> QED
      BY <3>5, <3>9 DEF DoWait
  <2>4. \A q \in Thread : Gone(q) => Gone(q)'
    BY GoneStays
  <2>5. WaitedFor'
    BY <2>1, <2>3, <2>4 DEF WaitedFor
  <2> QED
    BY <2>2, <2>5
<1>5. ASSUME NEW p \in Thread, Proceed(p)
      PROVE  UNCHANGED at \/ \E op : Comes(p, op)
  BY <1>5 DEF Proceed, Calls, Stretch, Say, Sending, ReleasesLog, Die, own, DoLock, DoUnlock,
              DoLog, DoKill, DoWait, DoRelease, DoReleaseLog
<1>6. ASSUME NEW p \in Thread, Proceed(p)
      PROVE  InText' /\ WaitedFor'
  <2>1. Text' = Text
    BY <1>6, OthersStay
  <2> QED
    BY <1>1, <1>4, <1>5, <1>6, <2>1
<1> QED
  BY <1>2, <1>3, <1>6 DEF MainNext

\* main() unmaps the shared memory and removes the queue when nobody can be in a
\* call on them, or come to one: everybody else has died or come to an end
\* before the parent's wait returned (674-678).
THEOREM ReleaseFindsNobody ==
  ASSUME \A x \in Texts : WaitsForAll(x)
  PROVE  MainSpec => []ReleasedAlone
<1>1. MainInit => InText /\ WaitedFor /\ EndingLast
  <2> SUFFICES ASSUME MainInit
               PROVE  InText /\ WaitedFor /\ EndingLast
    OBVIOUS
  <2>1. \A p \in Thread : at[p] = 0 /\ pc[p] = "idle" /\ logpc[p] = "idle" /\ Len(Text[p]) \in Nat
    BY ProcessesAre, TextAssumption DEF MainInit, Init
  <2>2. \A c : ~Made(c)
    BY <2>1, TextAssumption DEF Made
  <2>3. WaitedFor
    BY <2>1, <2>2 DEF WaitedFor, Gone, Finished
  <2>4. ~released /\ exists /\ ~Ending
    BY <2>1, TextAssumption DEF MainInit, Ending
  <2> QED
    BY <2>1, <2>3, <2>4, TextAssumption DEF InText, EndingLast
<1>2. ASSUME Placed, InText, WaitedFor, EndingLast, [MainNext]_mainVars
      PROVE  InText' /\ WaitedFor' /\ EndingLast'
  BY <1>2, WaitedForStep, EndingLastStep DEF AInv, Placed
<1>3. AInv => ReleasedAlone
  <2> SUFFICES ASSUME AInv, released \/ ~exists, NEW p \in Thread, pc[p] # "dead"
               PROVE  pc[p] = "idle" /\ logpc[p] # "send" /\ Ahead(p) = {}
    BY DEF ReleasedAlone
  <2> USE DEF AInv
  <2>1. PICK i \in 1 .. at[Parent] : Text[Parent][i].op \in EndCalls
    BY DEF EndingLast, Ending
  <2>2. /\ \A q \in Thread : at[q] \in Nat /\ Len(Text[q]) \in Nat /\ at[q] <= Len(Text[q])
        /\ WaitsForAll(Text) /\ Parent \in Thread
    BY TextAssumption DEF Placed, InText
  <2>3. i \in 1 .. Len(Text[Parent])
    BY <2>2
  <2>4. CASE p = Parent
    <3>1. \A j \in at[p] + 1 .. Len(Text[p]) : j \in i .. Len(Text[p])
      BY <2>2, <2>4
    <3>2. Ahead(p) = {}
      BY <2>1, <2>2, <2>3, <2>4, <3>1 DEF Ahead, WaitsForAll
    <3> QED
      BY <2>1, <2>4, <3>2 DEF EndingLast, Ending
  <2>5. CASE p # Parent
    <3>1. Text[p] = <<>> \/ \E j \in 1 .. i - 1 : Text[Parent][j] = [op |-> "wait", on |-> p]
      BY <2>1, <2>2, <2>3, <2>5 DEF WaitsForAll
    <3>2. \A j \in 1 .. i - 1 : j \in 1 .. at[Parent]
      BY <2>2
    <3>3. Gone(p)
      BY <3>1, <3>2 DEF WaitedFor, Made
    <3>4. at[p] + 1 .. Len(Text[p]) = {}
      BY <2>2, <3>3 DEF Gone, Finished
    <3> QED
      BY <3>3, <3>4 DEF Gone, Finished, Ahead
  <2> QED
    BY <2>4, <2>5
<1> QED
  BY <1>1, <1>2, <1>3, PlacedAlways, PTL DEF MainSpec, AInv

----------------------------------------------------------------------------
(* The configured order *)

\* Where a type stands is a number, so the order is one.
LEMMA PlaceOf ==
  ASSUME NEW t, Places(Jyunban, t) # {}
  PROVE  Max(Places(Jyunban, t)) \in Slot
<1>1. Places(Jyunban, t) \in SUBSET Nat /\ Places(Jyunban, t) \in SUBSET Slot
      /\ \A y \in Places(Jyunban, t) : y <= MAX_MUTEX_NUM
  BY SizeAssumption DEF Places, Slot
<1>2. PICK x \in Places(Jyunban, t) : \A y \in Places(Jyunban, t) : x >= y
  BY <1>1, GreatestOfNat, SizeAssumption
<1> QED
  BY <1>1, <1>2 DEF Max

LEMMA OneWay ==
  ASSUME NEW t, NEW u, InOrder(Jyunban, t, u)
  PROVE  t # u /\ ~InOrder(Jyunban, u, t)
<1>1. Max(Places(Jyunban, t)) \in Nat /\ Max(Places(Jyunban, u)) \in Nat
  BY PlaceOf, SizeAssumption DEF InOrder, Slot
<1> QED
  BY <1>1 DEF InOrder

\* The types of a row stand in its first slots.
Packed(row) == \A m, n \in Slot :
    m < n /\ row.get_mutex_type[m] = 0 => row.get_mutex_type[n] = 0

\* A type that comes after all a row holds goes where the order wants it.
LEMMA RecordInOrder ==
  ASSUME NEW row \in Row, NEW t \in LockType, Packed(row), isLockJyunbanOk(Jyunban, row),
         \A u \in Held(row) : InOrder(Jyunban, u, t),
         {m \in Slot : row.get_mutex_type[m] = 0} # {}
  PROVE  Packed(Recorded(row, t)) /\ isLockJyunbanOk(Jyunban, Recorded(row, t))
<1> DEFINE empty == {m \in Slot : row.get_mutex_type[m] = 0}
           e == Min(empty)
           old == row.get_mutex_type
           new == [old EXCEPT ![e] = t]
<1>1. e \in empty /\ \A m \in empty : e <= m
  <2>1. empty \in SUBSET Nat
    BY SizeAssumption DEF Slot
  <2> QED
    BY <2>1, LeastIsMin
<1>2. old \in [Slot -> Mutex] /\ t # 0 /\ Slot \in SUBSET Nat
  BY SizeAssumption DEF Row, LockType, Slot
<1>3. Recorded(row, t).get_mutex_type = new
  BY DEF Recorded, Row
<1> HIDE DEF e
<1>4. /\ e \in Slot /\ old[e] = 0 /\ new[e] = t
      /\ \A m \in Slot \ {e} : new[m] = old[m]
  BY <1>1, <1>2
<1>5. \A m \in Slot : e < m => old[m] = 0
  BY <1>4 DEF Packed
<1>6. \A m \in Slot : m < e => old[m] # 0
  BY <1>1, <1>2, <1>4
<1> HIDE DEF new
<1>7. Packed(Recorded(row, t))
  <2> SUFFICES ASSUME NEW m \in Slot, NEW n \in Slot, m < n, new[m] = 0
               PROVE  new[n] = 0
    BY <1>3 DEF Packed
  <2>1. m # e /\ old[m] = 0
    BY <1>2, <1>4
  <2>2. e < m /\ e < n
    BY <1>2, <1>4, <1>6, <2>1
  <2>3. n # e /\ old[n] = 0
    BY <1>2, <1>4, <1>5, <2>2
  <2> QED
    BY <1>4, <2>3
<1>8. ASSUME NEW m \in Slot, NEW n \in Slot, m < n, new[m] # new[n], new[m] # 0, new[n] # 0
      PROVE  InOrder(Jyunban, new[m], new[n])
  <2>1. n <= e
    BY <1>2, <1>4, <1>5, <1>8
  <2>2. m # e /\ new[m] = old[m]
    BY <1>2, <1>4, <1>8, <2>1
  <2>3. CASE n = e
    <3>1. new[m] \in Held(row)
      BY <1>8, <2>2 DEF Held
    <3> QED
      BY <1>4, <2>3, <3>1
  <2>4. CASE n # e
    BY <1>4, <1>8, <2>2, <2>4 DEF isLockJyunbanOk
  <2> QED
    BY <2>3, <2>4
<1> QED
  BY <1>3, <1>7, <1>8 DEF isLockJyunbanOk

\* The last type of a row can be wiped without a complaint or a gap.
LEMMA ClearInOrder ==
  ASSUME NEW row \in Row, NEW t \in LockType, Packed(row), isLockJyunbanOk(Jyunban, row),
         t \in Held(row), \A u \in Held(row) \ {t} : InOrder(Jyunban, u, t)
  PROVE  /\ ~UnlockedOutOfOrder(row, t)
         /\ Packed(Cleared(row, t)) /\ isLockJyunbanOk(Jyunban, Cleared(row, t))
<1> DEFINE old == row.get_mutex_type
           new == [m \in Slot |-> IF old[m] = t THEN 0 ELSE old[m]]
<1>1. old \in [Slot -> Mutex] /\ t # 0 /\ Slot \in SUBSET Nat
  BY SizeAssumption DEF Row, LockType, Slot
<1>2. Cleared(row, t).get_mutex_type = new
  BY DEF Cleared, Row
<1>3. \A m \in Slot : new[m] = IF old[m] = t THEN 0 ELSE old[m]
  OBVIOUS
<1>4. ASSUME NEW m \in Slot, NEW n \in Slot, m < n, old[m] = t
      PROVE  old[n] \in {0, t}
  <2>1. ASSUME old[n] \notin {0, t}
        PROVE  FALSE
    <3>1. InOrder(Jyunban, t, old[n])
      BY <1>1, <1>4, <2>1 DEF isLockJyunbanOk
    <3>2. old[n] \in Held(row) \ {t}
      BY <2>1 DEF Held
    <3> QED
      BY <3>1, <3>2, OneWay
  <2> QED
    BY <2>1
<1> HIDE DEF new
<1>5. Packed(Cleared(row, t))
  BY <1>1, <1>2, <1>3, <1>4 DEF Packed
<1>6. isLockJyunbanOk(Jyunban, Cleared(row, t))
  BY <1>2, <1>3 DEF isLockJyunbanOk
<1>7. ~UnlockedOutOfOrder(row, t)
  <2> DEFINE slots == {m \in Slot : old[m] = t} \cup {0}
  <2>1. PICK k \in Slot : old[k] = t
    BY DEF Held
  <2>2. slots \in SUBSET Nat /\ \A m \in slots : m <= MAX_MUTEX_NUM
    BY SizeAssumption DEF Slot
  <2>3. PICK x \in slots : \A y \in slots : x >= y
    BY <2>2, GreatestOfNat, SizeAssumption
  <2>4. Max(slots) \in slots /\ \A y \in slots : Max(slots) >= y
    BY <2>3 DEF Max
  <2> HIDE DEF slots
  <2>5. k \in slots
    BY <2>1 DEF slots
  <2>6. ASSUME NEW m \in Slot, m > Max(slots), old[m] \notin {0, t}
        PROVE  FALSE
    <3>1. Max(slots) \in Nat /\ k \in Nat /\ m \in Nat /\ Max(slots) >= k
      BY <1>1, <2>2, <2>4, <2>5
    <3>2. k < m
      BY <2>6, <3>1
    <3> QED
      BY <1>4, <2>1, <2>6, <3>2
  <2> QED
    BY <2>6 DEF UnlockedOutOfOrder, slots
<1> QED
  BY <1>5, <1>6, <1>7

----------------------------------------------------------------------------
(* What a text in order is inside of *)

LEMMA CallIs ==
  ASSUME NEW x \in Texts, NEW p \in Thread, NEW i \in 1 .. Len(x[p]),
         x[p][i].op \in {"lock", "unlock"}
  PROVE  x[p][i].on \in LockType /\ x[p][i] = [op |-> x[p][i].op, on |-> x[p][i].on]
<1> DEFINE Calling == [op : {"lock", "unlock"}, on : LockType]
           Other == [op : STRING \ {"lock", "unlock"}, on : Thread \cup LockType]
<1>1. x[p][i] \in Calling \cup Other
  BY TextAssumption
<1>2. x[p][i] \in Calling
  BY <1>1
<1> QED
  BY <1>2

LEMMA InsideMore ==
  ASSUME NEW x \in Texts, NEW p \in Thread, NEW i \in 1 .. Len(x[p]), x[p][i].op = "lock"
  PROVE  InsideAt(x, p, i + 1) = InsideAt(x, p, i) \cup {x[p][i].on}
<1> DEFINE t == x[p][i].on
<1>1. t \in LockType /\ x[p][i] = [op |-> "lock", on |-> t]
  BY CallIs
<1> HIDE DEF t
<1>2. \A u : x[p][i] # [op |-> "unlock", on |-> u]
  BY <1>1
<1>3. \A j : j \in 1 .. (i + 1) - 1 <=> j \in 1 .. i - 1 \/ j = i
  OBVIOUS
<1>4. \A j \in 1 .. i - 1 : \A k : k \in j + 1 .. (i + 1) - 1 <=> k \in j + 1 .. i - 1 \/ k = i
  OBVIOUS
<1>5. i + 1 .. (i + 1) - 1 = {}
  OBVIOUS
<1>6. \A u \in LockType : u \in InsideAt(x, p, i + 1) <=> u \in InsideAt(x, p, i) \/ u = t
  <2> TAKE u \in LockType
  <2>1. u \in InsideAt(x, p, i + 1) => u \in InsideAt(x, p, i) \/ u = t
    BY <1>1, <1>3, <1>4 DEF InsideAt
  <2>2. u \in InsideAt(x, p, i) => u \in InsideAt(x, p, i + 1)
    BY <1>2, <1>3, <1>4 DEF InsideAt
  <2>3. u = t => u \in InsideAt(x, p, i + 1)
    BY <1>1, <1>3, <1>5 DEF InsideAt
  <2> QED
    BY <2>1, <2>2, <2>3
<1> QED
  BY <1>1, <1>6 DEF InsideAt, t

LEMMA InsideLess ==
  ASSUME NEW x \in Texts, NEW p \in Thread, NEW i \in 1 .. Len(x[p]), x[p][i].op = "unlock"
  PROVE  InsideAt(x, p, i + 1) = InsideAt(x, p, i) \ {x[p][i].on}
<1> DEFINE t == x[p][i].on
<1>1. t \in LockType /\ x[p][i] = [op |-> "unlock", on |-> t]
  BY CallIs
<1> HIDE DEF t
<1>2. /\ \A u : x[p][i] # [op |-> "lock", on |-> u]
      /\ \A u : u # t => x[p][i] # [op |-> "unlock", on |-> u]
  BY <1>1
<1>3. \A j : j \in 1 .. (i + 1) - 1 <=> j \in 1 .. i - 1 \/ j = i
  OBVIOUS
<1>4. \A j \in 1 .. i - 1 : \A k : k \in j + 1 .. (i + 1) - 1 <=> k \in j + 1 .. i - 1 \/ k = i
  OBVIOUS
<1>5. \A u \in LockType : u \in InsideAt(x, p, i + 1) <=> u \in InsideAt(x, p, i) /\ u # t
  <2> TAKE u \in LockType
  <2>1. u \in InsideAt(x, p, i + 1) => u \in InsideAt(x, p, i) /\ u # t
    BY <1>1, <1>2, <1>3, <1>4 DEF InsideAt
  <2>2. u \in InsideAt(x, p, i) /\ u # t => u \in InsideAt(x, p, i + 1)
    BY <1>2, <1>3, <1>4 DEF InsideAt
  <2> QED
    BY <2>1, <2>2
<1> QED
  BY <1>1, <1>5 DEF InsideAt, t

----------------------------------------------------------------------------
(* Processes that follow such a text *)

Locking == {"lk_guard", "lk_check", "lk_wait", "lk_back", "lk_record", "raw_wait", "spin"}
Unlocking == {"ul_guard", "ul_raw", "ul_clear"}

\* What p is inside of, or asks for, is what its text says, and all it is inside
\* of comes before the mutex it asks for or gives back.
Follows(p) ==
    /\ inside[p] \cup (IF pc[p] \in Locking THEN {mutex_type[p]} ELSE {})
           = InsideAt(Text, p, at[p] + 1)
    /\ pc[p] # "idle" => \A u \in inside[p] : InOrder(Jyunban, u, mutex_type[p])

TextFollowed == sighup = {} /\ \A p \in Thread : pc[p] # "dead" /\ Follows(p)

\* Such a text has no calls but on mutexes, each of them where the order wants it.
LEMMA OrderedCall ==
  ASSUME Placed, Text \in OrderedTexts, NEW p \in Thread, NEW op, Comes(p, op)
  PROVE  LET t == Operand(p)
             before == InsideAt(Text, p, at[p] + 1)
         IN  /\ t \in LockType /\ \A u \in before \ {t} : InOrder(Jyunban, u, t)
             /\ \/ op = "lock" /\ t \notin before
                   /\ InsideAt(Text, p, at[p] + 1 + 1) = before \cup {t}
                \/ op = "unlock" /\ t \in before
                   /\ InsideAt(Text, p, at[p] + 1 + 1) = before \ {t}
<1> DEFINE i == at[p] + 1
           t == Text[p][i].on
           before == InsideAt(Text, p, i)
<1>1. i \in 1 .. Len(Text[p]) /\ Text[p][i].op = op /\ Text \in Texts
  BY NextCall DEF Placed
<1>2. Operand(p) = t
  BY DEF Operand
<1> HIDE DEF i
<1>3. \/ op = "lock" /\ \A u \in before : InOrder(Jyunban, u, t)
      \/ op = "unlock" /\ t \in before /\ \A u \in before \ {t} : InOrder(Jyunban, u, t)
  BY <1>1 DEF OrderedTexts
<1>4. op = "lock" => t \notin before
  BY <1>3, OneWay
<1>5. t \in LockType
  BY <1>1, <1>3, CallIs
<1>6. op = "lock" => InsideAt(Text, p, i + 1) = before \cup {t}
  BY <1>1, InsideMore
<1>7. op = "unlock" => InsideAt(Text, p, i + 1) = before \ {t}
  BY <1>1, InsideLess
<1> QED
  BY <1>2, <1>3, <1>4, <1>5, <1>6, <1>7 DEF i

\* So nobody is killed, and the log is written to by the calls alone.
LEMMA OrderedSteps ==
  ASSUME Placed, Text \in OrderedTexts, sighup = {}, [MainNext]_mainVars
  PROVE  /\ UNCHANGED <<Text, sighup, g_beforelock>>
         /\ \/ UNCHANGED <<vars, at>>
            \/ \E p \in Thread : Step(p) /\ UNCHANGED at
            \/ \E p \in Thread : DoLock(p) \/ DoUnlock(p)
<1> DEFINE Right ==
       /\ UNCHANGED <<Text, sighup, g_beforelock>>
       /\ \/ UNCHANGED <<vars, at>>
          \/ \E p \in Thread : Step(p) /\ UNCHANGED at
          \/ \E p \in Thread : DoLock(p) \/ DoUnlock(p)
<1>1. UNCHANGED <<vars, own>> => Right
  BY DEF own, vars
<1>2. UNCHANGED mainVars \/ LoggerRuns => Right
  BY <1>1 DEF mainVars, LoggerRuns
<1>3. ASSUME NEW p \in Thread, Proceed(p)
      PROVE  Right
  <2>1. \A op : Comes(p, op) => op \in {"lock", "unlock"}
    BY OrderedCall
  <2>2. ~DoLog(p) /\ ~DoKill(p) /\ ~DoWait(p) /\ ~DoRelease(p) /\ ~DoReleaseLog(p) /\ ~Die(p)
    BY <2>1 DEF DoLog, DoKill, DoWait, DoRelease, DoReleaseLog, Die
  <2>3. CASE Say(p) \/ Sending(p) \/ ReleasesLog(p)
    BY <1>1, <2>3 DEF Say, Sending, ReleasesLog
  <2>4. CASE Stretch(p)
    BY <1>3, <2>4 DEF Stretch, own, Proceed
  <2>5. CASE Calls(p) /\ (DoLock(p) \/ DoUnlock(p))
    BY <1>3, <2>5 DEF Calls, DoLock, DoUnlock, Proceed
  <2> QED
    BY <1>3, <2>2, <2>3, <2>4, <2>5 DEF Proceed, Calls
<1> QED
  BY <1>2, <1>3 DEF MainNext

\* How far a step inside a call takes it.
LEMMA CallGoesOn ==
  ASSUME TypeOK, NEW p \in Thread, Step(p)
  PROVE  /\ mutex_type' = mutex_type
         /\ \A q \in Thread \ {p} : pc'[q] = pc[q] /\ inside'[q] = inside[q]
         /\ \/ pc[p] \in Locking /\ pc'[p] \in Locking /\ inside'[p] = inside[p]
            \/ /\ pc[p] \in Locking /\ pc'[p] = "idle"
               /\ inside'[p] = inside[p] \cup {mutex_type[p]}
            \/ pc[p] \in Unlocking /\ pc'[p] \in Unlocking \cup {"idle"} /\ inside'[p] = inside[p]
<1> USE DEF TypeOK, Goto, ReturnReleasing, Locking, Unlocking
<1>1. CASE RawTake(p) \/ LockNoGetter(p) \/ LockRecord(p)
  BY <1>1 DEF RawTake, LockNoGetter, LockRecord
<1>2. CASE LockCheck(p) \/ TakeMutex(p) \/ UnlockStranger(p) \/ UnlockRaw(p) \/ UnlockClear(p)
  BY <1>2 DEF LockCheck, TakeMutex, UnlockStranger, UnlockRaw, UnlockClear
<1>3. CASE TakeGuard(p)
  <2>1. /\ UNCHANGED <<mutex_type, inside>>
        /\ \A q \in Thread \ {p} : pc'[q] = pc[q]
    BY <1>3 DEF TakeGuard
  <2>2. \/ pc[p] = "lk_guard" /\ pc'[p] = "lk_check"
        \/ pc[p] = "lk_back" /\ pc'[p] = "lk_record"
        \/ pc[p] = "ul_guard" /\ pc'[p] = "ul_raw"
    BY <1>3, Zenon DEF TakeGuard, WantsGuard
  <2> QED
    BY <2>1, <2>2
<1> QED
  BY <1>1, <1>2, <1>3 DEF Step

LEMMA TextFollowedStep ==
  ASSUME Placed, ~StrayUnlock, Text \in OrderedTexts, TextFollowed, [MainNext]_mainVars
  PROVE  TextFollowed'
<1> USE DEF TextFollowed
<1>1. TypeOK /\ UNCHANGED <<Text, sighup>>
  BY OrderedSteps DEF Placed, Types
<1>2. CASE UNCHANGED <<vars, at>>
  BY <1>1, <1>2 DEF vars, Follows
<1>3. ASSUME NEW p \in Thread, Step(p), UNCHANGED at
      PROVE  TextFollowed'
  <2>1. \A q \in Thread \ {p} : pc'[q] # "dead" /\ Follows(q)'
    BY <1>1, <1>3, CallGoesOn DEF Follows
  <2>2. pc'[p] # "dead"
    BY <1>1, <1>3, CallGoesOn DEF Locking, Unlocking
  <2>3. Follows(p)'
    BY <1>1, <1>3, CallGoesOn DEF Follows, Locking, Unlocking
  <2> QED
    BY <1>1, <2>1, <2>2, <2>3
<1>4. ASSUME NEW p \in Thread, DoLock(p) \/ DoUnlock(p)
      PROVE  TextFollowed'
  <2> DEFINE t == Operand(p)
             before == InsideAt(Text, p, at[p] + 1)
  <2>1. PICK op \in {"lock", "unlock"} : Comes(p, op) /\ (op = "lock" => CallLock(p, t))
                                       /\ (op = "unlock" => CallUnlock(p, t))
    <3>1. CASE DoLock(p)
      <4> WITNESS "lock" \in {"lock", "unlock"}
      <4> QED
        BY <3>1 DEF DoLock
    <3>2. CASE DoUnlock(p)
      <4> WITNESS "unlock" \in {"lock", "unlock"}
      <4> QED
        BY <3>2 DEF DoUnlock
    <3> QED
      BY <1>4, <3>1, <3>2
  <2>2. /\ pc[p] = "idle" /\ at'[p] = at[p] + 1 /\ \A q \in Thread \ {p} : at'[q] = at[q]
    BY <2>1, NextCall DEF Comes, Placed
  <2>3. /\ \A u \in before \ {t} : InOrder(Jyunban, u, t)
        /\ \/ op = "lock" /\ t \notin before /\ InsideAt(Text, p, at'[p] + 1) = before \cup {t}
           \/ op = "unlock" /\ t \in before /\ InsideAt(Text, p, at'[p] + 1) = before \ {t}
    BY <2>1, <2>2, OrderedCall
  <2>4. inside[p] = before
    BY <2>2 DEF Follows, Locking
  <2>5. /\ mutex_type'[p] = t /\ pc'[p] # "dead"
        /\ op = "lock" => inside'[p] = before /\ pc'[p] \in Locking
        /\ op = "unlock" => inside'[p] = before \ {t} /\ pc'[p] \notin Locking
        /\ \A q \in Thread \ {p} :
              pc'[q] = pc[q] /\ inside'[q] = inside[q] /\ mutex_type'[q] = mutex_type[q]
    <3>1. CASE op = "lock"
      BY <1>1, <2>1, <2>2, <2>4, <3>1 DEF CallLock, Goto, TypeOK, Locking
    <3>2. CASE op = "unlock"
      BY <1>1, <2>1, <2>2, <2>4, <3>2 DEF CallUnlock, Goto, TypeOK, Locking
    <3> QED
      BY <3>1, <3>2
  <2>6. Follows(p)'
    <3>1. inside'[p] \cup (IF pc'[p] \in Locking THEN {mutex_type'[p]} ELSE {})
              = InsideAt(Text, p, at'[p] + 1)
      BY <2>3, <2>5
    <3>2. \A u \in inside'[p] : InOrder(Jyunban, u, mutex_type'[p])
      BY <2>3, <2>5
    <3> QED
      BY <1>1, <3>1, <3>2 DEF Follows
  <2>7. \A q \in Thread \ {p} : Follows(q)'
    BY <1>1, <2>2, <2>5 DEF Follows
  <2> QED
    BY <1>1, <2>5, <2>6, <2>7
<1> QED
  BY <1>2, <1>3, <1>4, OrderedSteps

----------------------------------------------------------------------------
(* What their rows show *)

\* What p's row is to hold: what p is inside of, and the mutex it is giving back
\* until that is wiped.
KeptInRow(p) == inside[p] \cup (IF pc[p] \in Unlocking THEN {mutex_type[p]} ELSE {})

RowsInOrder == \A i \in Getter : Packed(mmgetter[i]) /\ isLockJyunbanOk(Jyunban, mmgetter[i])

InsideRecorded ==
    /\ \A i \in Getter : IF mmgetter[i].is_used THEN \E q \in Thread : i \in RowsOf(q)
                         ELSE Held(mmgetter[i]) = {}
    /\ \A p \in Thread : \A i \in RowsOf(p) : Held(mmgetter[i]) = KeptInRow(p)
    /\ \A p \in Thread : ~Registered(p) => KeptInRow(p) = {}

TableInOrder == RowsInOrder /\ OncePerRow /\ InsideRecorded

Unblamed == \A p \in Thread : logged[p] = {}

\* Around a ring of rows the awaited types would come later and later in the
\* order: each row holds what the one before it waits for.
LEMMA NoRings ==
  WInv /\ TextFollowed /\ InsideRecorded => \A S \in SUBSET Getter : ~RingOf(mmgetter, S)
<1> SUFFICES ASSUME WInv, TextFollowed, InsideRecorded, NEW S \in SUBSET Getter,
                    RingOf(mmgetter, S)
             PROVE  FALSE
  OBVIOUS
<1> DEFINE w(i) == mmgetter[i].wait_mutex_type
           place(i) == Max(Places(Jyunban, w(i)))
           all == {place(i) : i \in S}
<1>1. S # {} /\ \A i \in S : NextOf(mmgetter, i) \in S /\ mmgetter[i].is_waited
  BY RingOneToOne DEF RingOf
<1>2. \A j \in S : \E i \in S : NextOf(mmgetter, i) = j
  BY DEF RingOf
<1>3. ASSUME NEW i \in S
      PROVE  LET j == NextOf(mmgetter, i)
             IN  j \in S /\ mmgetter[j].is_used /\ w(i) \in Held(mmgetter[j])
  <2>1. NextOf(mmgetter, i) = HolderOf(mmgetter, w(i)) /\ NextOf(mmgetter, i) \in Getter
    BY <1>1, <1>3 DEF NextOf
  <2> QED
    BY <1>1, <1>3, <2>1, HolderRecords
<1>4. ASSUME NEW j \in S
      PROVE  \A u \in Held(mmgetter[j]) : InOrder(Jyunban, u, w(j))
  <2>1. mmgetter[j].is_used
    BY <1>2, <1>3, <1>4
  <2>2. PICK q \in Thread : j \in RowsOf(q)
    BY <1>4, <2>1 DEF InsideRecorded
  <2>3. pc[q] \in Waiting /\ w(j) = mutex_type[q]
    BY <1>1, <1>4, <2>2 DEF WInv, RowsShowWaits, TextFollowed, Waiting
  <2>4. Held(mmgetter[j]) = inside[q]
    BY <2>2, <2>3 DEF InsideRecorded, KeptInRow, Waiting, Unlocking
  <2> QED
    BY <2>3, <2>4 DEF TextFollowed, Follows, Waiting
<1>5. ASSUME NEW i \in S
      PROVE  InOrder(Jyunban, w(i), w(NextOf(mmgetter, i)))
  BY <1>3, <1>4, <1>5
<1>6. ASSUME NEW i \in S
      PROVE  /\ place(i) \in Nat /\ place(i) <= MAX_MUTEX_NUM
             /\ \E j \in S : place(i) < place(j)
  <2> DEFINE j == NextOf(mmgetter, i)
  <2>1. InOrder(Jyunban, w(i), w(j)) /\ j \in S
    BY <1>1, <1>5, <1>6
  <2>2. place(i) \in Slot /\ place(i) < place(j)
    BY <2>1, PlaceOf DEF InOrder
  <2> QED
    BY <2>1, <2>2, SizeAssumption DEF Slot
<1> HIDE DEF place
<1>7. all \in SUBSET Nat /\ all # {} /\ \A y \in all : y <= MAX_MUTEX_NUM
  BY <1>1, <1>6
<1>8. PICK x \in all : \A y \in all : x >= y
  <2> HIDE DEF all
  <2> QED
    BY <1>7, GreatestOfNat, SizeAssumption
<1> QED
  BY <1>6, <1>7, <1>8

\* The steps that leave the rows, and what they are to hold, alone.
LEMMA TableUntouched ==
  ASSUME TableInOrder, UNCHANGED mmgetter, \A q \in Thread : KeptInRow(q)' = KeptInRow(q)
  PROVE  TableInOrder'
<1>1. \A q \in Thread : RowsOf(q)' = RowsOf(q) /\ Registered(q)' = Registered(q)
  BY DEF RowsOf, Registered
<1>2. InsideRecorded'
  BY <1>1 DEF TableInOrder, InsideRecorded
<1>3. RowsInOrder' /\ OncePerRow'
  BY DEF TableInOrder, RowsInOrder, OncePerRow
<1> QED
  BY <1>2, <1>3 DEF TableInOrder

\* A request changes nothing of what the rows hold.
LEMMA RequestInOrder ==
  ASSUME WInv, TableInOrder, Key \in Injection(Thread, Ident), NEW p \in Thread, LockCheck(p)
  PROVE  TableInOrder'
<1> DEFINE r == LockRow(p)
<1>1. /\ r \in Getter /\ RowsOf(p) = (IF Registered(p) THEN {r} ELSE {})
      /\ ~Registered(p) => r \in FreeRows
      /\ \A i \in Getter \ {r} : mmgetter'[i] = mmgetter[i]
      /\ mmgetter'[r].is_used
      /\ mmgetter'[r].get_mutex_type = mmgetter[r].get_mutex_type
      /\ RowsOf(p)' = {r}
      /\ \A q \in Thread \ {p} : RowsOf(q)' = RowsOf(q) /\ r \notin RowsOf(q)
  BY RequestRow
<1> HIDE DEF r
<1>2. \A i \in Getter : mmgetter'[i].get_mutex_type = mmgetter[i].get_mutex_type
  BY <1>1
<1>3. RowsInOrder' /\ OncePerRow'
  BY <1>2 DEF TableInOrder, RowsInOrder, Packed, isLockJyunbanOk, OncePerRow
<1>4. \A i \in Getter : Held(mmgetter'[i]) = Held(mmgetter[i])
  BY <1>2 DEF Held
<1>5. \A q \in Thread : KeptInRow(q)' = KeptInRow(q)
  BY DEF LockCheck, Goto, WInv, Types, TypeOK, KeptInRow, Unlocking
<1>6. Held(mmgetter[r]) = KeptInRow(p)
  BY <1>1 DEF TableInOrder, InsideRecorded, FreeRows
<1>7. \A i \in Getter : IF mmgetter'[i].is_used THEN \E q \in Thread : i \in RowsOf(q)'
                       ELSE Held(mmgetter'[i]) = {}
  <2> SUFFICES ASSUME NEW i \in Getter \ {r}
               PROVE  IF mmgetter'[i].is_used THEN \E q \in Thread : i \in RowsOf(q)'
                      ELSE Held(mmgetter'[i]) = {}
    BY <1>1
  <2> QED
    BY <1>1 DEF TableInOrder, InsideRecorded
<1>8. \A q \in Thread : \A i \in RowsOf(q)' : Held(mmgetter'[i]) = KeptInRow(q)'
  <2>1. \A i \in RowsOf(p)' : Held(mmgetter'[i]) = KeptInRow(p)'
    BY <1>1, <1>4, <1>5, <1>6
  <2>2. ASSUME NEW q \in Thread \ {p}, NEW i \in RowsOf(q)
        PROVE  Held(mmgetter'[i]) = KeptInRow(q)'
    <3>1. i \in Getter
      BY DEF RowsOf
    <3> QED
      BY <1>4, <1>5, <2>2, <3>1 DEF TableInOrder, InsideRecorded
  <2> QED
    BY <1>1, <2>1, <2>2
<1>9. \A q \in Thread : ~Registered(q)' => KeptInRow(q)' = {}
  BY <1>1, <1>5 DEF TableInOrder, InsideRecorded, Registered
<1> QED
  BY <1>3, <1>7, <1>8, <1>9 DEF TableInOrder, InsideRecorded

\* One row is written anew by the thread it belongs to.
LEMMA RowInOrder ==
  ASSUME WInv, TableInOrder, Key \in Injection(Thread, Ident), NEW p \in Thread,
         LockRecord(p) \/ UnlockClear(p),
         LET row == mmgetter'[mmindex[p]]
         IN  /\ Held(row) = KeptInRow(p)'
             /\ Packed(row) /\ isLockJyunbanOk(Jyunban, row)
             /\ \A m, n \in Slot : row.get_mutex_type[m] = row.get_mutex_type[n]
                                   /\ row.get_mutex_type[m] # 0 => m = n
  PROVE  TableInOrder'
<1> DEFINE r == mmindex[p]
           row == mmgetter'[r]
<1>1. /\ Held(row) = KeptInRow(p)'
      /\ Packed(row) /\ isLockJyunbanOk(Jyunban, row)
      /\ \A m, n \in Slot : row.get_mutex_type[m] = row.get_mutex_type[n]
                            /\ row.get_mutex_type[m] # 0 => m = n
  OBVIOUS
<1>2. r \in RowsOf(p)
  BY DEF WInv, IndexOwn, LockRecord, UnlockClear
<1>3. \A q \in Thread : RowsOf(q)' = RowsOf(q) /\ Registered(q)' = Registered(q)
  BY RowsIdentified DEF RowsOf, Registered, WInv
<1>4. /\ RowsOf(p) = {r} /\ Registered(p)
      /\ \A q \in Thread \ {p} : r \notin RowsOf(q)
  BY <1>2 DEF RowsOf, Registered, RowsDistinct, WInv, Injection, IsInjective
<1>5. /\ \A i \in Getter \ {r} : mmgetter'[i] = mmgetter[i]
      /\ \A i \in Getter : mmgetter'[i].is_used = mmgetter[i].is_used
      /\ \A q \in Thread \ {p} : KeptInRow(q)' = KeptInRow(q)
  <2>1. \A i \in Getter : mmgetter'[i].is_used = mmgetter[i].is_used
    BY RowsIdentified DEF WInv
  <2>2. \A i \in Getter \ {r} : mmgetter'[i] = mmgetter[i]
    BY DEF LockRecord, UnlockClear, WInv, Types, TypeOK
  <2>3. /\ mutex_type' = mutex_type
        /\ \A q \in Thread \ {p} : pc'[q] = pc[q] /\ inside'[q] = inside[q]
    BY DEF LockRecord, UnlockClear, ReturnReleasing, Goto, WInv, Types, TypeOK
  <2> QED
    BY <2>1, <2>2, <2>3 DEF KeptInRow
<1> HIDE DEF row, r
<1>6. /\ mmgetter'[r] = row /\ r \in Getter /\ mmgetter[r].is_used
  BY <1>2 DEF row, RowsOf
<1>7. RowsInOrder' /\ OncePerRow'
  <2>1. RowsInOrder'
    BY <1>1, <1>5, <1>6 DEF TableInOrder, RowsInOrder
  <2>2. OncePerRow'
    <3> SUFFICES ASSUME NEW i \in Getter
                 PROVE  \A m, n \in Slot :
                            /\ mmgetter'[i].get_mutex_type[m] = mmgetter'[i].get_mutex_type[n]
                            /\ mmgetter'[i].get_mutex_type[m] # 0
                            => m = n
      BY DEF OncePerRow
    <3>1. CASE i = r
      BY <1>1, <1>6, <3>1
    <3>2. CASE i # r
      BY <1>5, <3>2 DEF TableInOrder, OncePerRow
    <3> QED
      BY <3>1, <3>2
  <2> QED
    BY <2>1, <2>2
<1>8. \A i \in Getter : IF mmgetter'[i].is_used THEN \E q \in Thread : i \in RowsOf(q)'
                       ELSE Held(mmgetter'[i]) = {}
  <2> SUFFICES ASSUME NEW i \in Getter
               PROVE  IF mmgetter'[i].is_used THEN \E q \in Thread : i \in RowsOf(q)'
                      ELSE Held(mmgetter'[i]) = {}
    OBVIOUS
  <2>1. i \notin RowsOf(p) => i # r
    BY <1>2
  <2> QED
    BY <1>3, <1>4, <1>5, <1>6, <2>1 DEF TableInOrder, InsideRecorded
<1>9. \A q \in Thread : \A i \in RowsOf(q)' : Held(mmgetter'[i]) = KeptInRow(q)'
  <2>1. \A i \in RowsOf(p)' : Held(mmgetter'[i]) = KeptInRow(p)'
    BY <1>1, <1>3, <1>4, <1>6
  <2>2. ASSUME NEW q \in Thread \ {p}, NEW i \in RowsOf(q)
        PROVE  Held(mmgetter'[i]) = KeptInRow(q)'
    <3>1. i \in Getter \ {r}
      BY <1>4, <2>2 DEF RowsOf
    <3> QED
      BY <1>5, <2>2, <3>1 DEF TableInOrder, InsideRecorded
  <2> QED
    BY <1>3, <2>1, <2>2
<1>10. \A q \in Thread : ~Registered(q)' => KeptInRow(q)' = {}
  BY <1>3, <1>4, <1>5 DEF TableInOrder, InsideRecorded
<1> QED
  BY <1>7, <1>8, <1>9, <1>10 DEF TableInOrder, InsideRecorded

\* The record of an acquisition: no complaint, and the rows as they are to be.
LEMMA RecordUnblamed ==
  ASSUME WInv, TextFollowed, TableInOrder, MAX_MUTEX_NUM >= MYMUTEX_TYPE_MAX - 1,
         Key \in Injection(Thread, Ident), NEW p \in Thread, LockRecord(p)
  PROVE  TableInOrder' /\ logged' = [logged EXCEPT ![p] = @ \cup {}]
<1> DEFINE r == mmindex[p]
           t == mutex_type[p]
           row == Recorded(mmgetter[r], t)
<1>1. /\ r \in RowsOf(p) /\ r \in Getter /\ mmgetter[r] \in Row /\ t \in LockType
      /\ pc[p] = "lk_record"
  BY DEF WInv, IndexOwn, LockRecord, Types, TypeOK, CallsTyped, RowsOf
<1>2. /\ mmgetter'[r] = row /\ pc'[p] = "idle" /\ inside'[p] = inside[p] \cup {t}
      /\ logged' = [logged EXCEPT ![p] = @ \cup If(~isLockJyunbanOk(Jyunban, row), "lock_order")]
  BY <1>1 DEF LockRecord, Complain, ReturnReleasing, Goto, WInv, Types, TypeOK
<1>3. Held(mmgetter[r]) = inside[p]
  BY <1>1 DEF TableInOrder, InsideRecorded, KeptInRow, Unlocking
<1>4. \A u \in Held(mmgetter[r]) : InOrder(Jyunban, u, t)
  BY <1>1, <1>3 DEF TextFollowed, Follows
<1>5. t \notin Held(mmgetter[r])
  BY <1>4, OneWay
<1>6. /\ Packed(mmgetter[r]) /\ isLockJyunbanOk(Jyunban, mmgetter[r])
      /\ \A m, n \in Slot : mmgetter[r].get_mutex_type[m] = mmgetter[r].get_mutex_type[n]
                            /\ mmgetter[r].get_mutex_type[m] # 0 => m = n
  BY <1>1 DEF TableInOrder, RowsInOrder, OncePerRow
<1> HIDE DEF t, r
<1>7. {m \in Slot : mmgetter[r].get_mutex_type[m] = 0} # {}
  BY <1>1, <1>5, <1>6, RoomForType
<1>8. /\ Held(row) = Held(mmgetter[r]) \cup {t}
      /\ \A m, n \in Slot : row.get_mutex_type[m] = row.get_mutex_type[n]
                            /\ row.get_mutex_type[m] # 0 => m = n
  BY <1>1, <1>5, <1>6, <1>7, RecordedHeld
<1>9. Packed(row) /\ isLockJyunbanOk(Jyunban, row)
  BY <1>1, <1>4, <1>6, <1>7, RecordInOrder
<1> HIDE DEF row
<1>10. KeptInRow(p)' = Held(row)
  BY <1>2, <1>3, <1>8 DEF KeptInRow, Unlocking
<1>11. TableInOrder'
  BY <1>2, <1>8, <1>9, <1>10, RowInOrder DEF r
<1> QED
  BY <1>2, <1>9, <1>11 DEF If

\* The wiping of what is given back: the same.
LEMMA ClearUnblamed ==
  ASSUME WInv, TextFollowed, TableInOrder,
         Key \in Injection(Thread, Ident), NEW p \in Thread, UnlockClear(p)
  PROVE  TableInOrder' /\ logged' = [logged EXCEPT ![p] = @ \cup {}]
<1> DEFINE r == mmindex[p]
           t == mutex_type[p]
           row == Cleared(mmgetter[r], t)
<1>1. /\ r \in RowsOf(p) /\ r \in Getter /\ mmgetter[r] \in Row /\ t \in LockType
      /\ pc[p] = "ul_clear"
  BY DEF WInv, IndexOwn, UnlockClear, Types, TypeOK, CallsTyped, RowsOf
<1>2. /\ mmgetter'[r] = row /\ pc'[p] = "idle" /\ inside'[p] = inside[p]
      /\ logged' = [logged EXCEPT ![p] =
                        @ \cup If(UnlockedOutOfOrder(mmgetter[r], t), "unlock_order")]
  BY <1>1 DEF UnlockClear, Complain, ReturnReleasing, Goto, WInv, Types, TypeOK
<1>3. Held(mmgetter[r]) = inside[p] \cup {t}
  BY <1>1 DEF TableInOrder, InsideRecorded, KeptInRow, Unlocking
<1>4. \A u \in inside[p] : InOrder(Jyunban, u, t)
  BY <1>1 DEF TextFollowed, Follows
<1>5. t \notin inside[p]
  BY <1>4, OneWay
<1>6. /\ Packed(mmgetter[r]) /\ isLockJyunbanOk(Jyunban, mmgetter[r])
      /\ \A m, n \in Slot : mmgetter[r].get_mutex_type[m] = mmgetter[r].get_mutex_type[n]
                            /\ mmgetter[r].get_mutex_type[m] # 0 => m = n
  BY <1>1 DEF TableInOrder, RowsInOrder, OncePerRow
<1> HIDE DEF t, r
<1>7. /\ Held(row) = Held(mmgetter[r]) \ {t}
      /\ \A m, n \in Slot : row.get_mutex_type[m] = row.get_mutex_type[n]
                            /\ row.get_mutex_type[m] # 0 => m = n
  BY <1>1, <1>6, ClearedHeld
<1>8. /\ ~UnlockedOutOfOrder(mmgetter[r], t)
      /\ Packed(row) /\ isLockJyunbanOk(Jyunban, row)
  <2>1. t \in Held(mmgetter[r]) /\ \A u \in Held(mmgetter[r]) \ {t} : InOrder(Jyunban, u, t)
    BY <1>3, <1>4
  <2> QED
    BY <1>1, <1>6, <2>1, ClearInOrder
<1> HIDE DEF row
<1>9. KeptInRow(p)' = Held(row)
  BY <1>2, <1>3, <1>5, <1>7 DEF KeptInRow, Unlocking
<1>10. TableInOrder'
  BY <1>2, <1>7, <1>8, <1>9, RowInOrder DEF r
<1> QED
  BY <1>2, <1>8, <1>10 DEF If

\* A request: the rows so far are in order, and no ring is closed.
LEMMA RequestUnblamed ==
  ASSUME WInv, WInv', TextFollowed', TableInOrder, Key \in Injection(Thread, Ident),
         NEW p \in Thread, LockCheck(p)
  PROVE  TableInOrder' /\ logged' = [logged EXCEPT ![p] = @ \cup {}]
<1> DEFINE r == LockRow(p)
           verdict == isDeadLock(mmgetter', r)
<1>1. r \in Getter /\ TableInOrder'
  BY RequestRow, RequestInOrder
<1>2. mmindex'[p] = r
  BY DEF LockCheck, WInv, Types, TypeOK
<1>3. logged' = [logged EXCEPT ![p] = @ \cup
                    (If(~isLockJyunbanOk(Jyunban, mmgetter[r]), "lock_order")
                         \cup If(verdict = "YES", "deadlock"))]
  BY <1>2 DEF LockCheck, Complain
<1>4. isLockJyunbanOk(Jyunban, mmgetter[r])
  BY <1>1 DEF TableInOrder, RowsInOrder
<1>5. verdict # "YES"
  <2>1. (\A S \in SUBSET Getter : ~RingOf(mmgetter, S))'
    <3>1. (WInv /\ TextFollowed /\ InsideRecorded)'
      BY <1>1 DEF TableInOrder
    <3> QED
      BY <3>1, NoRings, PTL
  <2>2. \A S \in SUBSET Getter : ~RingOf(mmgetter', S)
    BY <2>1
  <2> HIDE DEF r
  <2>3. ~\E S \in SUBSET Getter : r \in S /\ RingOf(mmgetter', S)
    BY <2>2
  <2> QED
    BY <1>1, <2>3, YesIsRing
<1> QED
  BY <1>1, <1>3, <1>4, <1>5 DEF If

BlameInv == Ordered =>
    TextFollowed /\ Unblamed /\ (g_beforelock => TableInOrder)

\* With MYMUTEX_NOUSE_BEFORELOCK nothing is ever logged.
LEMMA UnguardedUnblamed ==
  ASSUME IInv, Unblamed, ~g_beforelock, NEW p \in Thread,
         Step(p) \/ \E t \in LockType : CallLock(p, t) \/ CallUnlock(p, t)
  PROVE  Unblamed'
<1> USE DEF IInv, Types, TypeOK, CallsPlaced, UnderGuard, WantsGuard
<1>1. CASE RawTake(p)
  BY <1>1 DEF RawTake, Unblamed
<1>2. ~TakeGuard(p) /\ ~TakeMutex(p) /\ ~LockNoGetter(p) /\ ~LockCheck(p) /\ ~LockRecord(p)
      /\ ~UnlockStranger(p) /\ ~UnlockRaw(p) /\ ~UnlockClear(p)
  BY DEF TakeGuard, TakeMutex, LockNoGetter, LockCheck, LockRecord, UnlockStranger, UnlockRaw,
         UnlockClear
<1>3. CASE \E t \in LockType : CallLock(p, t) \/ CallUnlock(p, t)
  BY <1>3 DEF CallLock, CallUnlock, Unblamed
<1> QED
  BY <1>1, <1>2, <1>3 DEF Step

\* Under BEFORELOCK, a call that has been made ...
LEMMA StepUnblamed ==
  ASSUME MAX_MUTEX_NUM >= MYMUTEX_TYPE_MAX - 1, Key \in Injection(Thread, Ident),
         IsFiniteSet(Ident), Cardinality(Ident) <= MAX_MUTEX_GETTER_NUM,
         IInv, WInv, WInv', RowsNamed, TextFollowed, TextFollowed', Unblamed,
         g_beforelock, TableInOrder, NEW p \in Thread, Step(p)
  PROVE  Unblamed' /\ TableInOrder'
<1> USE DEF WInv, Types, TypeOK
<1>1. ASSUME logged' = [logged EXCEPT ![p] = @ \cup {}]
      PROVE  Unblamed'
  BY <1>1 DEF Unblamed
<1>2. CASE LockCheck(p)
  BY <1>1, <1>2, RequestUnblamed
<1>3. CASE LockRecord(p)
  BY <1>1, <1>3, RecordUnblamed
<1>4. CASE UnlockClear(p)
  BY <1>1, <1>4, ClearUnblamed
<1>5. ~RawTake(p)
  BY DEF RawTake, IInv, CallsPlaced
<1>6. ~LockNoGetter(p)
  BY NobodyRefused DEF LockNoGetter, RowsNamed
<1>7. ~UnlockStranger(p)
  BY DEF UnlockStranger, TableInOrder, InsideRecorded, KeptInRow, Unlocking
<1>8. CASE TakeGuard(p) \/ TakeMutex(p) \/ UnlockRaw(p)
  <2>1. /\ UNCHANGED <<mmgetter, mutex_type, inside, logged>>
        /\ \A q \in Thread \ {p} : pc'[q] = pc[q]
    BY <1>8 DEF TakeGuard, TakeMutex, UnlockRaw, Goto
  <2>2. pc[p] \in Unlocking <=> pc'[p] \in Unlocking
    <3>1. CASE TakeGuard(p)
      <4>1. \/ pc[p] = "lk_guard" /\ pc'[p] = "lk_check"
            \/ pc[p] = "lk_back" /\ pc'[p] = "lk_record"
            \/ pc[p] = "ul_guard" /\ pc'[p] = "ul_raw"
        BY <3>1, Zenon DEF TakeGuard, Goto, WantsGuard
      <4> QED
        BY <4>1 DEF Unlocking
    <3>2. CASE TakeMutex(p) \/ UnlockRaw(p)
      BY <3>2 DEF TakeMutex, UnlockRaw, Goto, Unlocking
    <3> QED
      BY <1>8, <3>1, <3>2
  <2>3. \A q \in Thread : KeptInRow(q)' = KeptInRow(q)
    BY <2>1, <2>2 DEF KeptInRow
  <2> QED
    BY <2>1, <2>3, TableUntouched DEF Unblamed
<1> QED
  BY <1>2, <1>3, <1>4, <1>5, <1>6, <1>7, <1>8 DEF Step

\* ... and one that is made.
LEMMA CallUnblamed ==
  ASSUME ~StrayUnlock, WInv, Unblamed, g_beforelock, TableInOrder,
         NEW p \in Thread, NEW t \in LockType, CallLock(p, t) \/ CallUnlock(p, t)
  PROVE  Unblamed' /\ TableInOrder'
<1> USE DEF WInv, Types, TypeOK
<1>1. logged' = [logged EXCEPT ![p] = {}] /\ mmgetter' = mmgetter
  BY DEF CallLock, CallUnlock
<1>2. KeptInRow(p)' = KeptInRow(p)
  <2>1. CASE CallLock(p, t)
    BY <2>1 DEF CallLock, Goto, KeptInRow, Unlocking
  <2>2. CASE CallUnlock(p, t)
    <3>1. /\ pc[p] = "idle" /\ t \in inside[p] /\ pc'[p] = "ul_guard"
          /\ inside'[p] = inside[p] \ {t} /\ mutex_type'[p] = t
      BY <2>2 DEF CallUnlock, Goto
    <3> QED
      BY <3>1 DEF KeptInRow, Unlocking
  <2> QED
    BY <2>1, <2>2
<1>3. \A q \in Thread \ {p} : KeptInRow(q)' = KeptInRow(q)
  BY DEF CallLock, CallUnlock, Goto, KeptInRow
<1> QED
  BY <1>1, <1>2, <1>3, TableUntouched DEF Unblamed

LEMMA TextKept ==
  ASSUME Placed, [MainNext]_mainVars
  PROVE  Text' = Text
<1>1. CASE UNCHANGED mainVars \/ LoggerRuns
  BY <1>1, LoggerApart DEF mainVars, own
<1> QED
  BY <1>1, OthersStay DEF MainNext

LEMMA BlameStep ==
  ASSUME ~StrayUnlock, MAX_MUTEX_NUM >= MYMUTEX_TYPE_MAX - 1, Key \in Injection(Thread, Ident),
         IsFiniteSet(Ident), Cardinality(Ident) <= MAX_MUTEX_GETTER_NUM,
         Placed, IInv, WInv, WInv', RowsNamed, BlameInv, [MainNext]_mainVars
  PROVE  BlameInv'
<1>1. Text' = Text
  BY TextKept
<1> SUFFICES ASSUME Ordered
             PROVE  TextFollowed' /\ Unblamed' /\ (g_beforelock => TableInOrder)'
  BY <1>1 DEF BlameInv, Ordered
<1>2. TextFollowed /\ Unblamed /\ (g_beforelock => TableInOrder) /\ sighup = {}
  BY DEF BlameInv, TextFollowed
<1>3. TextFollowed'
  BY <1>2, TextFollowedStep DEF Ordered
<1>4. /\ g_beforelock' = g_beforelock
      /\ \/ UNCHANGED <<vars, at>>
         \/ \E p \in Thread : Step(p) /\ UNCHANGED at
         \/ \E p \in Thread : DoLock(p) \/ DoUnlock(p)
  BY <1>2, OrderedSteps DEF Ordered
<1>5. CASE UNCHANGED <<vars, at>>
  <2>1. Unblamed' /\ \A q \in Thread : KeptInRow(q)' = KeptInRow(q)
    BY <1>2, <1>5 DEF vars, Unblamed, KeptInRow
  <2> QED
    BY <1>2, <1>3, <1>5, <2>1, TableUntouched DEF vars
<1>6. ASSUME NEW p \in Thread, Step(p)
      PROVE  Unblamed' /\ (g_beforelock => TableInOrder)'
  <2>1. CASE g_beforelock
    BY <1>2, <1>3, <1>4, <1>6, <2>1, StepUnblamed
  <2>2. CASE ~g_beforelock
    BY <1>2, <1>4, <1>6, <2>2, UnguardedUnblamed
  <2> QED
    BY <2>1, <2>2
<1>7. ASSUME NEW p \in Thread, DoLock(p) \/ DoUnlock(p)
      PROVE  Unblamed' /\ (g_beforelock => TableInOrder)'
  <2>1. PICK t \in LockType : CallLock(p, t) \/ CallUnlock(p, t)
    BY <1>7, OperandTyped DEF DoLock, DoUnlock
  <2>2. CASE g_beforelock
    BY <1>2, <1>4, <2>1, <2>2, CallUnblamed
  <2>3. CASE ~g_beforelock
    BY <1>2, <1>4, <2>1, <2>3, UnguardedUnblamed
  <2> QED
    BY <2>2, <2>3
<1> QED
  BY <1>3, <1>4, <1>5, <1>6, <1>7

LEMMA BlameAlways ==
  ASSUME ~StrayUnlock, MAX_MUTEX_NUM >= MYMUTEX_TYPE_MAX - 1, Key \in Injection(Thread, Ident),
         IsFiniteSet(Ident), Cardinality(Ident) <= MAX_MUTEX_GETTER_NUM
  PROVE  MainSpec => []Placed /\ []IInv /\ []BlameInv
<1>1. MainInit => BlameInv /\ RowsNamed
  <2> SUFFICES ASSUME MainInit
               PROVE  BlameInv /\ RowsNamed
    OBVIOUS
  <2>1. /\ \A p \in Thread : /\ pc[p] = "idle" /\ inside[p] = {} /\ logged[p] = {}
                             /\ at[p] = 0
        /\ sighup = {} /\ mmgetter = [i \in Getter |-> EmptyRow]
    BY DEF MainInit, Init
  <2>2. /\ \A i \in Getter : mmgetter[i] = EmptyRow /\ ~mmgetter[i].is_used
        /\ \A m \in Slot : EmptyRow.get_mutex_type[m] = 0
    BY <2>1 DEF EmptyRow
  <2>3. \A p \in Thread : InsideAt(Text, p, at[p] + 1) = {}
    <3>1. 1 .. (0 + 1) - 1 = {}
      OBVIOUS
    <3> QED
      BY <2>1, <3>1 DEF InsideAt
  <2>4. TextFollowed
    BY <2>1, <2>3 DEF TextFollowed, Follows, Locking
  <2>5. TableInOrder
    <3>1. RowsInOrder /\ OncePerRow
      BY <2>2 DEF RowsInOrder, Packed, isLockJyunbanOk, OncePerRow
    <3>2. \A i \in Getter : Held(mmgetter[i]) = {}
      BY <2>2 DEF Held
    <3>3. \A p \in Thread : RowsOf(p) = {} /\ KeptInRow(p) = {}
      BY <2>1, <2>2 DEF RowsOf, KeptInRow, Unlocking
    <3> QED
      BY <2>2, <3>1, <3>2, <3>3 DEF TableInOrder, InsideRecorded
  <2> QED
    BY <2>1, <2>2, <2>4, <2>5 DEF BlameInv, Unblamed, RowsNamed
<1>2. Placed /\ IInv /\ WInv /\ WInv' /\ RowsNamed /\ BlameInv /\ [MainNext]_mainVars
      => RowsNamed' /\ BlameInv'
  BY StepsOfManager, RowsNamedStep, BlameStep DEF IInv
<1>3. (Spec => []IInv) /\ (Spec => []WInv)
  BY Inductive, WaitsAlways
<1> QED
  BY <1>1, <1>2, <1>3, ProcessesAreCallers, PlacedAlways, PTL DEF MainSpec

\* Processes that lock in the configured order and unlock in the reverse order are
\* blamed for nothing, whatever the others do meanwhile (509, 519, 535, 290, 609):
\* no wrong order, no deadlock, no missing row.  Every process has an identity of
\* its own, and the table a row for each of them with room for every type.
THEOREM OrderIsNeverBlamed ==
  ASSUME ~StrayUnlock, MAX_MUTEX_NUM >= MYMUTEX_TYPE_MAX - 1, Key \in Injection(Thread, Ident),
         IsFiniteSet(Ident), Cardinality(Ident) <= MAX_MUTEX_GETTER_NUM
  PROVE  MainSpec => []NobodyBlamed
<1>1. BlameInv => NobodyBlamed
  BY DEF BlameInv, NobodyBlamed, Unblamed
<1> QED
  BY <1>1, BlameAlways, PTL

----------------------------------------------------------------------------
(* What the order is for *)

\* Who owns a mutex is inside of it, or in a call on it.
OwnedInside == \A t \in LockType, p \in Thread : owner[t] = p => Claims(p, t)

LEMMA OwnedInsideStep ==
  ASSUME ~StrayUnlock, IInv, OwnedInside, NEW p \in Thread,
         \/ Step(p) /\ ~UnlockStranger(p)
         \/ \E t \in LockType : CallLock(p, t) \/ CallUnlock(p, t)
  PROVE  OwnedInside'
<1> USE DEF IInv, Types, TypeOK, Goto, ReturnReleasing
<1>0. BEFORELOCK \notin LockType /\ LockType \in SUBSET Mutex /\ NoThread \notin Thread
  BY ThreadAssumption DEF BEFORELOCK, LockType, Mutex
<1>1. /\ \A q \in Thread \ {p} : /\ pc'[q] = pc[q] /\ inside'[q] = inside[q]
                               /\ mutex_type'[q] = mutex_type[q]
      /\ \A t \in LockType, q \in Thread \ {p} : owner'[t] = q => owner[t] = q
  <2>1. CASE RawTake(p) \/ TakeMutex(p) \/ UnlockRaw(p)
    BY <1>0, <2>1 DEF RawTake, TakeMutex, UnlockRaw, UnlockedBy
  <2>2. CASE TakeGuard(p) \/ LockNoGetter(p) \/ LockCheck(p) \/ LockRecord(p) \/ UnlockClear(p)
    BY <1>0, <2>2 DEF TakeGuard, LockNoGetter, LockCheck, LockRecord, UnlockClear
  <2>3. CASE \E t \in LockType : CallLock(p, t) \/ CallUnlock(p, t)
    BY <1>0, <2>3 DEF CallLock, CallUnlock, UnlockedBy
  <2> QED
    BY <2>1, <2>2, <2>3 DEF Step
<1>2. ASSUME NEW t \in LockType, owner'[t] = p
      PROVE  Claims(p, t)'
  <2>1. CASE RawTake(p) \/ TakeMutex(p) \/ LockRecord(p) \/ LockNoGetter(p)
    BY <1>0, <1>2, <2>1 DEF RawTake, TakeMutex, LockRecord, LockNoGetter, OwnedInside, Claims
  <2>2. CASE LockCheck(p) \/ UnlockClear(p)
    BY <1>0, <1>2, <2>2 DEF LockCheck, UnlockClear, OwnedInside, Claims
  <2>3. CASE TakeGuard(p)
    <3>1. /\ UNCHANGED <<mutex_type, inside>> /\ owner[t] = p
      BY <1>0, <1>2, <2>3 DEF TakeGuard
    <3>2. \/ pc[p] = "lk_guard" /\ pc'[p] = "lk_check"
          \/ pc[p] = "lk_back" /\ pc'[p] = "lk_record"
          \/ pc[p] = "ul_guard" /\ pc'[p] = "ul_raw"
      BY <2>3, Zenon DEF TakeGuard, WantsGuard
    <3> QED
      BY <3>1, <3>2 DEF OwnedInside, Claims
  <2>4. CASE UnlockRaw(p)
    <3>1. /\ pc[p] = "ul_raw" /\ Entitled(p) /\ mutex_type[p] \in LockType
          /\ UNCHANGED <<mutex_type, inside>>
          /\ \E o \in UnlockedBy(p, mutex_type[p]) :
                owner' = [owner EXCEPT ![mutex_type[p]] = o]
      BY <2>4 DEF UnlockRaw, Entitled, CallsTyped
    <3>2. owner[mutex_type[p]] = p
      BY <3>1 DEF ClaimsOwned, Claims
    <3>3. t # mutex_type[p] /\ owner[t] = p
      BY <1>0, <1>2, <3>1, <3>2 DEF UnlockedBy
    <3> QED
      BY <3>1, <3>3 DEF OwnedInside, Claims
  <2>5. ASSUME NEW u \in LockType, CallLock(p, u)
        PROVE  Claims(p, t)'
    BY <1>2, <2>5 DEF CallLock, OwnedInside, Claims
  <2>6. ASSUME NEW u \in LockType, CallUnlock(p, u)
        PROVE  Claims(p, t)'
    <3>1. pc[p] = "idle" /\ u \in inside[p] /\ inside'[p] = inside[p] \ {u} /\ mutex_type'[p] = u
      BY <2>6 DEF CallUnlock
    <3>2. CASE g_beforelock
      BY <1>2, <2>6, <3>1, <3>2 DEF CallUnlock, OwnedInside, Claims
    <3>3. CASE ~g_beforelock
      <4>1. owner[u] = p
        BY <3>1, <3>3 DEF ClaimsOwned, Claims, Entitled
      <4>2. t # u /\ owner[t] = p
        BY <1>0, <1>2, <2>6, <3>3, <4>1 DEF CallUnlock, UnlockedBy
      <4> QED
        BY <3>1, <4>2 DEF OwnedInside, Claims
    <3> QED
      BY <3>2, <3>3
  <2> QED
    BY <2>1, <2>2, <2>3, <2>4, <2>5, <2>6 DEF Step
<1>3. ASSUME NEW t \in LockType, NEW q \in Thread \ {p}, owner'[t] = q
      PROVE  Claims(q, t)'
  BY <1>1, <1>3 DEF OwnedInside, Claims
<1> QED
  BY <1>2, <1>3 DEF OwnedInside

\* The owner of what p is blocked on, with BEFORELOCK in use or without.
AwaitedOwner(p) ==
    IF pc[p] \in {"lk_wait", "raw_wait"} THEN owner[mutex_type[p]] ELSE NoThread

NobodyInRing == \A S \in SUBSET Thread : S # {} => {AwaitedOwner(p) : p \in S} # S

\* Around a ring of processes, too, the awaited types would come later and later.
LEMMA NoRingOfProcesses ==
  ASSUME Types, TextFollowed, OwnedInside
  PROVE  NobodyInRing
<1> SUFFICES ASSUME NEW S \in SUBSET Thread, S # {}, {AwaitedOwner(p) : p \in S} = S
             PROVE  FALSE
  BY DEF NobodyInRing
<1> DEFINE place(p) == Max(Places(Jyunban, mutex_type[p]))
           all == {place(p) : p \in S}
<1>1. ASSUME NEW p \in S
      PROVE  /\ place(p) \in Nat /\ place(p) <= MAX_MUTEX_NUM
             /\ \E q \in S : place(p) < place(q)
  <2> DEFINE q == AwaitedOwner(p)
             t == mutex_type[p]
  <2>1. q \in S /\ AwaitedOwner(q) \in S
    BY <1>1
  <2>2. /\ pc[p] \in {"lk_wait", "raw_wait"} /\ owner[t] = q
        /\ pc[q] \in {"lk_wait", "raw_wait"}
    BY <1>1, <2>1, ThreadAssumption DEF AwaitedOwner
  <2>3. t \in LockType
    BY <2>2 DEF Types, CallsTyped
  <2>4. t \in inside[q]
    BY <2>1, <2>2, <2>3 DEF OwnedInside, Claims
  <2>5. InOrder(Jyunban, t, mutex_type[q])
    BY <2>1, <2>2, <2>4 DEF TextFollowed, Follows
  <2>6. place(p) \in Slot /\ place(p) < place(q)
    BY <2>5, PlaceOf DEF InOrder
  <2> QED
    BY <2>1, <2>6, SizeAssumption DEF Slot
<1> HIDE DEF place
<1>2. all \in SUBSET Nat /\ all # {} /\ \A y \in all : y <= MAX_MUTEX_NUM
  BY <1>1
<1>3. PICK x \in all : \A y \in all : x >= y
  <2> HIDE DEF all
  <2> QED
    BY <1>2, GreatestOfNat, SizeAssumption
<1>4. PICK p \in S : x = place(p)
  BY <1>3
<1>5. PICK q \in S : place(p) < place(q)
  BY <1>1
<1>6. place(q) \in all /\ place(p) \in Nat /\ place(q) \in Nat
  BY <1>1
<1> QED
  BY <1>3, <1>4, <1>5, <1>6

\* Processes that lock in the configured order and unlock in the reverse order
\* never block each other in a ring: what mmjyunban is for (140-176).
THEOREM OrderNeverDeadlocks ==
  ASSUME ~StrayUnlock, MAX_MUTEX_NUM >= MYMUTEX_TYPE_MAX - 1, Key \in Injection(Thread, Ident),
         IsFiniteSet(Ident), Cardinality(Ident) <= MAX_MUTEX_GETTER_NUM
  PROVE  MainSpec => [](Ordered => NobodyInRing)
<1> DEFINE Inv == Ordered => OwnedInside
<1>1. MainInit => Inv
  <2>1. LockType \in SUBSET Mutex
    BY DEF LockType, Mutex
  <2> QED
    BY <2>1, ThreadAssumption DEF MainInit, Init, OwnedInside
<1>2. ASSUME Placed, IInv, BlameInv, Inv, [MainNext]_mainVars
      PROVE  Inv'
  <2> SUFFICES ASSUME Ordered'
               PROVE  OwnedInside'
    OBVIOUS
  <2>1. Ordered
    BY <1>2, TextKept DEF Ordered
  <2>2. TextFollowed /\ sighup = {} /\ (g_beforelock => TableInOrder) /\ OwnedInside
    BY <1>2, <2>1 DEF BlameInv, TextFollowed
  <2>3. \/ UNCHANGED <<vars, at>>
        \/ \E p \in Thread : Step(p) /\ UNCHANGED at
        \/ \E p \in Thread : DoLock(p) \/ DoUnlock(p)
    BY <1>2, <2>1, <2>2, OrderedSteps DEF Ordered
  <2>4. \A p \in Thread : ~UnlockStranger(p)
    BY <1>2, <2>2 DEF UnlockStranger, IInv, CallsPlaced, UnderGuard, TableInOrder,
                      InsideRecorded, KeptInRow, Unlocking
  <2>5. CASE UNCHANGED <<vars, at>>
    BY <2>2, <2>5 DEF vars, OwnedInside, Claims
  <2>6. ASSUME NEW p \in Thread, Step(p)
        PROVE  OwnedInside'
    BY <1>2, <2>2, <2>4, <2>6, OwnedInsideStep
  <2>7. ASSUME NEW p \in Thread, DoLock(p) \/ DoUnlock(p)
        PROVE  OwnedInside'
    BY <1>2, <2>2, <2>7, OperandTyped, OwnedInsideStep DEF DoLock, DoUnlock
  <2> QED
    BY <2>3, <2>5, <2>6, <2>7
<1>3. Placed /\ BlameInv /\ Inv => (Ordered => NobodyInRing)
  BY NoRingOfProcesses DEF Placed, BlameInv
<1> HIDE DEF Inv
<1> QED
  BY <1>1, <1>2, <1>3, BlameAlways, PTL DEF MainSpec

=============================================================================
