---------------------------- MODULE MymutexMain ----------------------------
(***************************************************************************)
(* Processes that follow a fixed text of calls, as main() of               *)
(* common/mymutex.c (646-702) does: the parent locks ACCOUNT then DBQUE,   *)
(* the child the other way round, and when the parent is through it kills  *)
(* the child, waits for it and releases the shared memory and the log.     *)
(* The sleeps leave every interleaving possible.                           *)
(*                                                                         *)
(* The lock manager traces and complains with mylog, whose msgsnd blocks   *)
(* while the queue is full, so this is Mymutex over Log: a stretch of a    *)
(* call ends only when all it logs is on the queue.  A full queue can hold *)
(* a caller up before it asks for BEFORELOCK, while it has it, between     *)
(* giving it back and taking the mutex, and with the mutex taken and not   *)
(* yet recorded.                                                           *)
(***************************************************************************)
EXTENDS Mymutex, Sequences

CONSTANTS
    Texts,      \* each text gives the calls of every process, in order
    Parent,     \* the process that runs initlog and forks the others
    logger,     \* the process initlog forks
    NoMessage, QueueMax, MaxSent    \* as in Log

ASSUME TextAssumption ==
    /\ \A x \in Texts : \A p \in Thread :
           x[p] \in Seq([op : {"lock", "unlock"}, on : LockType]
                          \cup [op : STRING \ {"lock", "unlock"}, on : Thread \cup LockType])
    /\ Parent \in Thread /\ logger \notin Thread

VARIABLES
    Text,       \* the text the processes follow, chosen at the start
    at,         \* how many calls of its text each process has made
    sighup,     \* the processes a SIGHUP is pending for
    released,   \* the shared memory is unmapped and unlinked
    told,       \* how many messages each process has logged in its stretch
    \* the log's: see Log
    queue, exists, mutex, logpc, hand, log_pid, children, hup, sent, file, accepted

\* A message is a complaint, or one of the traces that follow a call (LOG_TEST).
L == INSTANCE Log WITH
    pc <- logpc, Main <- {Parent}, Worker <- Thread \ {Parent}, Logger <- {logger},
    Content <- Complaint \cup {"trace"}, NoProcess <- NoThread,
    MayFail <- FALSE, MayCrash <- {}, MayRelease <- {Parent}, Direct <- FALSE

own == <<Text, at, sighup, released>>
logVars == <<queue, exists, mutex, logpc, hand, log_pid, children, hup, sent, file, accepted>>
mainVars == <<vars, own, told, logVars>>

\* initlog, init_mymutex and the forks have been done.
MainInit ==
    /\ Init
    /\ Text \in Texts
    /\ at = [p \in Thread |-> 0]
    /\ sighup = {}
    /\ released = FALSE
    /\ told = [p \in Thread |-> 0]
    /\ queue = <<>> /\ exists = TRUE /\ mutex = NoThread
    /\ logpc = [q \in L!Process |-> IF q = logger THEN "recv" ELSE "idle"]
    /\ hand = [q \in L!Process |-> NoMessage]
    /\ log_pid = [m \in {Parent} |-> logger]
    /\ children = [m \in {Parent} |-> L!Process \ {Parent}]
    /\ hup = {}
    /\ sent = [p \in L!Sender |-> 0]
    /\ file = [p \in L!Sender |-> <<>>]
    /\ accepted = {}

----------------------------------------------------------------------------
(* Logging *)

Note(b, c) == IF b THEN <<c>> ELSE <<>>

\* isLockJyunbanOk traces the first pair it finds in the wrong order, and its
\* caller complains.
OrderNotes(row) ==
    IF isLockJyunbanOk(Jyunban, row) THEN <<>> ELSE <<"trace", "lock_order">>

\* The walk from p's request ends with v.
Verdict(p, v) ==
    \E tbl \in {Requested(p)}, me \in {LockRow(p)} : isDeadLock(tbl, me) = v

\* isDeadLock traces the holder it finds first, if there is one, and how the walk
\* ends, if it does; its caller complains of a deadlock.
WalkNotes(p) ==
    Note(HolderOf(Requested(p), mutex_type[p]) # NoGetter, "trace")
        \o Note(~Verdict(p, "LOOPS"), "trace") \o Note(Verdict(p, "YES"), "deadlock")

NextOp(p) == IF at[p] < Len(Text[p]) THEN Text[p][at[p] + 1].op ELSE "none"

\* What p logs before it goes on from where it is, in order.  Every call traces
\* its name first, and the blocking pthread_mutex_lock is between two traces;
\* the complaints are those its step enters in logged.
ToSay(p) ==
    CASE pc[p] = "idle" -> Note(NextOp(p) \in {"lock", "unlock"}, "trace")
      [] pc[p] = "lk_check" /\ ~Registered(p) /\ FreeRows = {} -> <<"no_getter">>
      [] pc[p] = "lk_check" /\ (Registered(p) \/ FreeRows # {}) ->
            OrderNotes(mmgetter[LockRow(p)]) \o WalkNotes(p)
      [] pc[p] \in {"lk_wait", "lk_back"} -> <<"trace">>
      [] pc[p] = "lk_record" -> OrderNotes(Recorded(mmgetter[mmindex[p]], mutex_type[p]))
      [] pc[p] = "ul_raw" -> Note(~Registered(p), "not_locked")
      [] pc[p] = "ul_clear" ->
            Note(UnlockedOutOfOrder(mmgetter[mmindex[p]], mutex_type[p]), "unlock_order")
      [] OTHER -> <<>>

SaidAll(p) == logpc[p] = "idle" /\ told[p] = Len(ToSay(p))

\* mylog is called with whatever p holds held,
Say(p) ==
    /\ logpc[p] = "idle"
    /\ \E all \in {ToSay(p)} :
        told[p] < Len(all) /\ L!Mylog(p, all[told[p] + 1])
    /\ told' = [told EXCEPT ![p] = @ + 1]
    /\ UNCHANGED <<vars, own>>

\* and its msgsnd waits for room.
Sending(p) == L!SenderStep(p) /\ UNCHANGED <<vars, own, told>>

\* A stretch of a call, once all it logs is on the queue.
Stretch(p) ==
    /\ SaidAll(p) /\ Step(p)
    /\ told' = [told EXCEPT ![p] = 0]
    /\ UNCHANGED <<own, logVars>>

----------------------------------------------------------------------------
(* The calls of the texts *)

Finished(p) == pc[p] = "idle" /\ logpc[p] # "send" /\ at[p] = Len(Text[p])
Gone(p) == pc[p] = "dead" \/ Finished(p)

\* The next call of p's text is op; a call on a mutex has logged its name.
Comes(p, op) ==
    /\ pc[p] = "idle" /\ SaidAll(p)
    /\ at[p] < Len(Text[p])
    /\ Text[p][at[p] + 1].op = op
    /\ at' = [at EXCEPT ![p] = @ + 1]
    /\ told' = [told EXCEPT ![p] = 0]

Operand(p) == Text[p][at[p] + 1].on

DoLock(p) ==
    Comes(p, "lock") /\ CallLock(p, Operand(p)) /\ UNCHANGED <<sighup, released, logVars>>
DoUnlock(p) ==
    Comes(p, "unlock") /\ CallUnlock(p, Operand(p)) /\ UNCHANGED <<sighup, released, logVars>>

\* main() logs too, three messages of three types that all become LOG_TEST.
DoLog(p) ==
    Comes(p, "mylog") /\ L!Mylog(p, "trace") /\ UNCHANGED <<vars, sighup, released>>

\* kill(pid, SIGHUP) posts the signal; a child that is through feels nothing.
DoKill(p) ==
    /\ Comes(p, "kill")
    /\ sighup' = IF Finished(Operand(p)) THEN sighup ELSE sighup \cup {Operand(p)}
    /\ UNCHANGED <<vars, released, logVars>>

\* The signal ends the child at any later point, unless it comes to its end.
Die(p) ==
    /\ p \in sighup /\ ~Finished(p)
    /\ Kill(p) /\ L!Die(p)
    /\ UNCHANGED <<at, sighup, released, told>>

\* Faulty variant: WNOHANG.
DoWaitNot(p) == Comes(p, "wait") /\ UNCHANGED <<vars, sighup, released, logVars>>

\* wait(&status) returns when the child is gone; the logger, its other child, is
\* still there.
DoWait(p) ==
    /\ Comes(p, "wait") /\ Gone(Operand(p))
    /\ children' = [children EXCEPT ![p] = @ \ {Operand(p)}]
    /\ UNCHANGED <<vars, sighup, released, queue, exists, mutex, logpc, hand, log_pid,
                   hup, sent, file, accepted>>

\* release_mymutex: munmap and shm_unlink.
DoRelease(p) ==
    /\ Comes(p, "release")
    /\ released' = TRUE
    /\ UNCHANGED <<vars, sighup, logVars>>

DoReleaseLog(p) ==
    Comes(p, "releaselog") /\ L!KillLogger(p) /\ UNCHANGED <<vars, sighup, released>>

ReleasesLog(m) == L!ReleaseStep(m) /\ UNCHANGED <<vars, own, told>>

Calls(p) ==
    /\ \/ DoLock(p) \/ DoUnlock(p) \/ DoLog(p)
       \/ DoKill(p) \/ DoWait(p) \/ DoRelease(p) \/ DoReleaseLog(p) \/ Die(p)
    /\ UNCHANGED Text

Proceed(p) ==
    /\ \/ Stretch(p) \/ Say(p) \/ Sending(p) \/ Calls(p)
       \/ p = Parent /\ ReleasesLog(p)
    /\ UNCHANGED g_beforelock

LoggerRuns ==
    (L!WriterStep(logger) \/ L!Hangup(logger)) /\ UNCHANGED <<vars, own, told>>

MainNext == LoggerRuns \/ \E p \in Thread : Proceed(p)

\* Every process that can go on is eventually scheduled.
MainSpec ==
    /\ MainInit
    /\ [][MainNext]_mainVars
    /\ WF_mainVars(LoggerRuns)
    /\ \A p \in Thread : WF_mainVars(Proceed(p))

----------------------------------------------------------------------------

\* What p is inside of when it comes to call i of the text x.
InsideAt(x, p, i) ==
    {u \in LockType : \E j \in 1 .. i - 1 :
        /\ x[p][j] = [op |-> "lock", on |-> u]
        /\ \A k \in j + 1 .. i - 1 : x[p][k] # [op |-> "unlock", on |-> u]}

\* The texts that only lock and unlock, lock in the configured order, unlock in
\* the reverse order, and all of it.
OrderedTexts ==
    {x \in Texts : \A p \in Thread :
        /\ \A i \in 1 .. Len(x[p]) :
            LET t == x[p][i].on
            IN  \/ /\ x[p][i].op = "lock"
                   /\ \A u \in InsideAt(x, p, i) : InOrder(Jyunban, u, t)
                \/ /\ x[p][i].op = "unlock" /\ t \in InsideAt(x, p, i)
                   /\ \A u \in InsideAt(x, p, i) \ {t} : InOrder(Jyunban, u, t)
        /\ InsideAt(x, p, Len(x[p]) + 1) = {}}

Ordered == Text \in OrderedTexts

\* main() shows what the deadlock check is for: in the end all processes are gone,
\* or one that waits for good has been told of the deadlock (514-516).
EndsOrTold ==
    <>[](g_beforelock =>
            \/ \A p \in Thread : Gone(p)
            \/ \E p \in Thread : pc[p] = "lk_wait" /\ "deadlock" \in logged[p])

EndCalls == {"release", "releaselog"}

\* The calls p has still to make, but those of the release itself.
Ahead(p) == {Text[p][i].op : i \in at[p] + 1 .. Len(Text[p])} \ EndCalls

\* A text that releases as main() does (674-678): the parent, last of all and when
\* it has waited for everybody who has calls to make.
WaitsForAll(x) ==
    \A p \in Thread : \A i \in {j \in 1 .. Len(x[p]) : x[p][j].op \in EndCalls} :
        /\ p = Parent
        /\ \A j \in i .. Len(x[p]) : x[p][j].op \in EndCalls
        /\ \A q \in Thread \ {Parent} :
              x[q] = <<>> \/ \E j \in 1 .. i - 1 : x[Parent][j] = [op |-> "wait", on |-> q]

\* When the shared memory is released or the queue removed, no process is in, or
\* yet to make, a call on them: the parent has waited for the child that it
\* killed, wherever that was in its calls or in mylog (674-678).
ReleasedAlone ==
    (released \/ ~exists) =>
        \A p \in Thread :
            \/ pc[p] = "dead"
            \/ pc[p] = "idle" /\ logpc[p] # "send" /\ Ahead(p) = {}

\* The alarm for a deadlock gets out of it: in the end the process that is blocked
\* for good has its message written, by a logger that needs none of the mutexes.
AlarmWritten ==
    <>[]\A p \in Thread :
            "deadlock" \in logged[p] => \E i \in DOMAIN file[p] : file[p][i].what = "deadlock"

\* A queue full of complaints slows the lock manager down and does not stop it:
\* who wants BEFORELOCK, or has to log while it has it, gets through.
GuardReturns ==
    \A p \in Thread :
        []<>(pc[p] \notin WantsGuard \cup UnderGuard)

\* Processes that lock in the configured order and unlock in the reverse order
\* all come to an end, with BEFORELOCK in use and without ...
AllFinish == <>[](Ordered => \A p \in Thread : Finished(p))

\* ... and nobody is ever blamed for anything (509, 519, 535, 290, 609).
NobodyBlamed == Ordered => \A p \in Thread : logged[p] = {}

=============================================================================
