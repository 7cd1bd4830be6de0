-------------------------------- MODULE Log --------------------------------
(***************************************************************************)
(* common/log.c: initlog makes a System V message queue and a mutex in     *)
(* shared memory and forks a logger; mylog puts a message on the queue, and *)
(* the logger writes it to the log file; mylogd writes directly, under the *)
(* same mutex; releaselog kills the logger and removes the queue.          *)
(*                                                                         *)
(* commondef.h defines THISISTEST, so whatever type a caller gives, mylog  *)
(* and mylogd make it LOG_TEST: no message is dropped for its type, all    *)
(* take the same queue, and there is one file, logtest.txt.  Types are     *)
(* therefore left out.                                                     *)
(*                                                                         *)
(* One action is one system call that can block or be seen by another      *)
(* process, with the code that follows it.  A message is known by who sent *)
(* it, its number, and as much of its text as a property asks for.  One    *)
(* longer than the buffer is dropped before anything happens and is no     *)
(* step.                                                                   *)
(***************************************************************************)
EXTENDS SequencesExt

CONSTANTS
    Main,           \* processes that run initlog, each after the one before died
    Worker,         \* processes forked by one of them after initlog
    Logger,         \* process ids for the loggers that initlog forks
    Content,        \* what a message may say, as far as it is told apart
    NoProcess,      \* owner of the free mutex; log_pid before initlog
    NoMessage,      \* the buffer of a process that has no message
    QueueMax,       \* messages the kernel lets a queue hold
    MaxSent,        \* messages each process sends, by mylog and mylogd
    MayFail,        \* whether fopen and fork can fail
    MayCrash,       \* processes that something else may kill
    MayRelease,     \* main processes that call releaselog
    Direct          \* whether processes call mylogd too

ASSUME ProcessAssumption ==
    /\ NoProcess \notin Main \cup Worker \cup Logger
    /\ Main \cap Worker = {} /\ Main \cap Logger = {} /\ Worker \cap Logger = {}
    /\ MayCrash \subseteq Main \cup Worker \cup Logger
    /\ MayRelease \subseteq Main
    /\ QueueMax \in Nat \ {0} /\ MaxSent \in Nat
    /\ MayFail \in BOOLEAN /\ Direct \in BOOLEAN

Process == Main \cup Worker \cup Logger
Sender == Main \cup Worker
Message == [by : Sender, no : 1..MaxSent, what : Content]

ASSUME BufferAssumption == NoMessage \notin Message

VARIABLES
    queue,      \* the messages on the queue
    exists,     \* whether the queue exists
    mutex,      \* the process that has locked the mutex
    pc,         \* where each process is
    hand,       \* the message in each process's buffer
    log_pid,    \* the logger each main process knows
    children,   \* the children of each main process it has not waited for
    hup,        \* processes a SIGHUP is on its way to
    sent,       \* messages each sender has begun to send
    file,       \* the messages of each sender, in their order in the log file
    accepted    \* messages for which mylog returned LOG_OK

vars == <<queue, exists, mutex, pc, hand, log_pid, children, hup, sent, file, accepted>>

InLoop == {"recv", "take", "write"}             \* the logger's endless loop
InMylogd == {"take_direct", "write_direct"}
InRelease == {"rl_wait", "rl_remove"}
PC == {"none", "forking", "idle", "send", "dead", "released"}
          \cup InLoop \cup InMylogd \cup InRelease

TypeOK ==
    /\ queue \in Seq(Message) /\ Len(queue) <= QueueMax
    /\ exists \in BOOLEAN
    /\ mutex \in Process \cup {NoProcess}
    /\ pc \in [Process -> PC]
    /\ hand \in [Process -> Message \cup {NoMessage}]
    /\ log_pid \in [Main -> Logger \cup {NoProcess}]
    /\ children \in [Main -> SUBSET (Worker \cup Logger)]
    /\ hup \subseteq Logger
    /\ sent \in [Sender -> 0..MaxSent]
    /\ \A p \in Sender : file[p] \in Seq(Message)
    /\ accepted \subseteq Message

Init ==
    /\ queue = <<>> /\ exists = FALSE
    /\ mutex = NoProcess
    /\ pc = [p \in Process |-> "none"]
    /\ hand = [p \in Process |-> NoMessage]
    /\ log_pid = [m \in Main |-> NoProcess]
    /\ children = [m \in Main |-> {}]
    /\ hup = {}
    /\ sent = [p \in Sender |-> 0]
    /\ file = [p \in Sender |-> <<>>]
    /\ accepted = {}

Goto(p, l) == pc' = [pc EXCEPT ![p] = l]
Put(p, m) == hand' = [hand EXCEPT ![p] = m]
Over(p) == pc[p] \in {"dead", "released"}

----------------------------------------------------------------------------
(* initlog *)

\* Faulty variant: a queue left by an earlier run is removed and made anew.
OpenQueueAnew(m) ==
    /\ pc[m] = "none"
    /\ \A other \in Main : pc[other] \in {"none", "dead"}
    /\ exists' = TRUE /\ queue' = <<>>
    /\ mutex' = NoProcess
    /\ Goto(m, "forking")
    /\ UNCHANGED <<hand, log_pid, children, hup, sent, file, accepted>>

\* The queue is made, or the one of an earlier run is found (IPC_EXCL fails,
\* which is only printed); the mutex is initialised, whoever may hold it.
OpenQueue(m) ==
    /\ pc[m] = "none"
    /\ \A other \in Main : pc[other] \in {"none", "dead"}
    /\ exists' = TRUE
    /\ mutex' = NoProcess
    /\ Goto(m, "forking")
    /\ UNCHANGED <<queue, hand, log_pid, children, hup, sent, file, accepted>>

\* Faulty variant: one logger is forked for each type of message.
ForkLoggerEach(m) ==
    /\ pc[m] = "forking"
    /\ \E l \in Logger :
        /\ pc' = [p \in Process |-> CASE p = m -> "idle"
                                      [] p \in Logger /\ pc[p] = "none" -> "recv"
                                      [] OTHER -> pc[p]]
        /\ log_pid' = [log_pid EXCEPT ![m] = l]
        /\ children' = [children EXCEPT ![m] = @ \cup Logger]
    /\ UNCHANGED <<queue, exists, mutex, hand, hup, sent, file, accepted>>

ForkLogger(m) ==
    /\ pc[m] = "forking"
    /\ \E l \in Logger :
        /\ pc[l] = "none"
        /\ pc' = [pc EXCEPT ![m] = "idle", ![l] = "recv"]
        /\ log_pid' = [log_pid EXCEPT ![m] = l]
        /\ children' = [children EXCEPT ![m] = @ \cup {l}]
    /\ UNCHANGED <<queue, exists, mutex, hand, hup, sent, file, accepted>>

\* Faulty variant: the test is pid != 0, so -1 is taken for the logger's pid.
ForkFailsUnseen(m) ==
    /\ pc[m] = "forking"
    /\ MayFail
    /\ log_pid' = [log_pid EXCEPT ![m] = -1]
    /\ Goto(m, "idle")
    /\ UNCHANGED <<queue, exists, mutex, hand, children, hup, sent, file, accepted>>

\* fork returns -1, which is not > 0: the caller itself becomes the logger and
\* never returns from initlog.
ForkFails(m) ==
    /\ pc[m] = "forking"
    /\ MayFail
    /\ Goto(m, "recv")
    /\ UNCHANGED <<queue, exists, mutex, hand, log_pid, children, hup, sent, file, accepted>>

----------------------------------------------------------------------------
(* mylog and mylogd *)

\* The next message of p, which says t, is composed, and is made a LOG_TEST
\* message; p goes on at l.
Compose(p, t, l) ==
    /\ pc[p] = "idle"
    /\ sent[p] < MaxSent
    /\ sent' = [sent EXCEPT ![p] = @ + 1]
    /\ Put(p, [by |-> p, no |-> sent[p] + 1, what |-> t])
    /\ Goto(p, l)
    /\ UNCHANGED <<queue, exists, mutex, log_pid, children, hup, file, accepted>>

Mylog(p, t) == Compose(p, t, "send")
Mylogd(p, t) == Direct /\ Compose(p, t, "take_direct")

\* msgsnd blocks while the queue is full; mylog then returns LOG_OK.
Send(p) ==
    /\ pc[p] = "send"
    /\ exists /\ Len(queue) < QueueMax
    /\ queue' = Append(queue, hand[p])
    /\ accepted' = accepted \cup {hand[p]}
    /\ Put(p, NoMessage)
    /\ Goto(p, "idle")
    /\ UNCHANGED <<exists, mutex, log_pid, children, hup, sent, file>>

\* msgsnd fails when the queue is removed, even while it waits: LOG_NO.
SendFails(p) ==
    /\ pc[p] = "send"
    /\ ~exists
    /\ Put(p, NoMessage)
    /\ Goto(p, "idle")
    /\ UNCHANGED <<queue, exists, mutex, log_pid, children, hup, sent, file, accepted>>

----------------------------------------------------------------------------
(* The logger's loop, and what mylogd shares with it *)

\* Faulty variant: the message is looked at and stays on the queue.
ReceiveCopy(p) ==
    /\ pc[p] = "recv"
    /\ exists /\ queue # <<>>
    /\ Put(p, Head(queue))
    /\ Goto(p, "take")
    /\ UNCHANGED <<queue, exists, mutex, log_pid, children, hup, sent, file, accepted>>

\* msgrcv takes the oldest message: its type argument is 0.
Receive(p) ==
    /\ pc[p] = "recv"
    /\ exists /\ queue # <<>>
    /\ Put(p, Head(queue))
    /\ queue' = Tail(queue)
    /\ Goto(p, "take")
    /\ UNCHANGED <<exists, mutex, log_pid, children, hup, sent, file, accepted>>

TakeMutex(p) ==
    /\ pc[p] \in {"take", "take_direct"}
    /\ mutex = NoProcess
    /\ mutex' = p
    /\ Goto(p, IF pc[p] = "take" THEN "write" ELSE "write_direct")
    /\ UNCHANGED <<queue, exists, hand, log_pid, children, hup, sent, file, accepted>>

\* What pthread_mutex_unlock by p may leave: a mutex made anew under p's feet is
\* not p's to unlock, and whether that frees it is undefined.
Unlocked(p) == IF mutex = p THEN {NoProcess} ELSE {mutex, NoProcess}

\* The log file is appended to, or cannot be opened; the mutex is unlocked.  The
\* logger ignores the result and loops, mylogd returns it.
Finish(p, written) ==
    /\ pc[p] \in {"write", "write_direct"}
    /\ file' = IF written THEN [file EXCEPT ![hand[p].by] = Append(@, hand[p])] ELSE file
    /\ mutex' \in Unlocked(p)
    /\ Put(p, NoMessage)
    /\ Goto(p, IF pc[p] = "write" THEN "recv" ELSE "idle")
    /\ UNCHANGED <<queue, exists, log_pid, children, hup, sent, accepted>>

\* Faulty variant: the mutex is not unlocked after a write.
WriteKeeping(p) ==
    /\ pc[p] \in {"write", "write_direct"}
    /\ file' = [file EXCEPT ![hand[p].by] = Append(@, hand[p])]
    /\ Put(p, NoMessage)
    /\ Goto(p, IF pc[p] = "write" THEN "recv" ELSE "idle")
    /\ UNCHANGED <<queue, exists, mutex, log_pid, children, hup, sent, accepted>>

\* Faulty variant: the return for a file that cannot be opened keeps the mutex.
OpenFailsKeeping(p) ==
    /\ pc[p] \in {"write", "write_direct"}
    /\ MayFail
    /\ Put(p, NoMessage)
    /\ Goto(p, IF pc[p] = "write" THEN "recv" ELSE "idle")
    /\ UNCHANGED <<queue, exists, mutex, log_pid, children, hup, sent, file, accepted>>

\* Faulty variant: the file is opened with "w", not "a".
WriteAnew(p) ==
    /\ pc[p] \in {"write", "write_direct"}
    /\ file' = [q \in Sender |-> IF q = hand[p].by THEN <<hand[p]>> ELSE <<>>]
    /\ mutex' \in Unlocked(p)
    /\ Put(p, NoMessage)
    /\ Goto(p, IF pc[p] = "write" THEN "recv" ELSE "idle")
    /\ UNCHANGED <<queue, exists, log_pid, children, hup, sent, accepted>>

Write(p) == Finish(p, TRUE)
OpenFails(p) == MayFail /\ Finish(p, FALSE)

----------------------------------------------------------------------------
(* releaselog *)

KillLogger(m) ==
    /\ pc[m] = "idle" /\ m \in MayRelease
    /\ hup' = hup \cup {log_pid[m]}
    /\ Goto(m, "rl_wait")
    /\ UNCHANGED <<queue, exists, mutex, hand, log_pid, children, sent, file, accepted>>

\* wait returns for any child that has ended, the logger or another.
WaitChild(m) ==
    /\ pc[m] = "rl_wait"
    /\ \E c \in children[m] :
        /\ pc[c] = "dead"
        /\ children' = [children EXCEPT ![m] = @ \ {c}]
    /\ Goto(m, "rl_remove")
    /\ UNCHANGED <<queue, exists, mutex, hand, log_pid, hup, sent, file, accepted>>

\* Faulty variant: the queue is left to the system.
RemoveNothing(m) ==
    /\ pc[m] = "rl_remove"
    /\ Goto(m, "released")
    /\ UNCHANGED <<queue, exists, mutex, hand, log_pid, children, hup, sent, file, accepted>>

\* The queue goes, with what is on it.
RemoveQueue(m) ==
    /\ pc[m] = "rl_remove"
    /\ exists' = FALSE /\ queue' = <<>>
    /\ Goto(m, "released")
    /\ UNCHANGED <<mutex, hand, log_pid, children, hup, sent, file, accepted>>

----------------------------------------------------------------------------
(* The processes around it *)

StartWorker(m, w) ==
    /\ pc[m] = "idle" /\ pc[w] = "none"
    /\ Goto(w, "idle")
    /\ children' = [children EXCEPT ![m] = @ \cup {w}]
    /\ UNCHANGED <<queue, exists, mutex, hand, log_pid, hup, sent, file, accepted>>

Die(p) ==
    /\ pc' = [pc EXCEPT ![p] = "dead"]
    /\ Put(p, NoMessage)
    /\ hup' = hup \ {p}
    /\ UNCHANGED <<queue, exists, mutex, log_pid, children, sent, file, accepted>>

\* A worker is done; a SIGHUP arrives; a process is killed by something else.
ExitWorker(w) == pc[w] = "idle" /\ Die(w)
Hangup(l) == l \in hup /\ pc[l] # "dead" /\ Die(l)
Crash(p) == p \in MayCrash /\ pc[p] # "none" /\ ~Over(p) /\ Die(p)

LogCall(p) == \E t \in Content : Mylog(p, t) \/ Mylogd(p, t)
SenderStep(p) == Send(p) \/ SendFails(p)
WriterStep(p) == Receive(p) \/ TakeMutex(p) \/ Write(p) \/ OpenFails(p)
InitStep(m) == OpenQueue(m) \/ ForkLogger(m) \/ ForkFails(m)
ReleaseStep(m) == WaitChild(m) \/ RemoveQueue(m)

Next ==
    \/ \E m \in Main : InitStep(m) \/ KillLogger(m) \/ ReleaseStep(m)
    \/ \E m \in Main, w \in Worker : StartWorker(m, w)
    \/ \E p \in Sender : LogCall(p) \/ SenderStep(p)
    \/ \E p \in Process : WriterStep(p) \/ Crash(p)
    \/ \E w \in Worker : ExitWorker(w)
    \/ \E l \in Logger : Hangup(l)

Spec == Init /\ [][Next]_vars

\* Every process runs on unless it is blocked; a signal sent arrives.  That a
\* program starts, logs, releases or dies is not assumed.
FairSpec ==
    /\ Spec
    /\ \A p \in Sender : WF_vars(SenderStep(p))
    /\ \A p \in Process : WF_vars(WriterStep(p))
    /\ \A m \in Main : WF_vars(ReleaseStep(m))
    /\ \A l \in Logger : WF_vars(Hangup(l))

----------------------------------------------------------------------------
(* Properties *)

Elements(s) == {s[i] : i \in DOMAIN s}

\* The places a message can be in: the queue, a living process's buffer, the file.
Copies(m) ==
    LET in(s) == Cardinality({i \in DOMAIN s : s[i] = m})
    IN  in(queue) + Cardinality({p \in Process : hand[p] = m}) + in(file[m.by])

\* A message accepted with LOG_OK is never missing, whatever other processes do
\* and even if the process that ran initlog dies and runs anew (no release, no
\* logger killed, every file opens): it is on the queue, with a logger, or
\* written.  The old queue must survive the second initlog.
AcceptedNotLost == \A m \in accepted : Copies(m) >= 1

\* No message is ever in two places, so none is written twice, even when the
\* logger of an earlier run is still alive and reads the same queue.
NothingTwice ==
    \A p \in Sender, n \in 1..MaxSent, t \in Content :
        Copies([by |-> p, no |-> n, what |-> t]) <= 1

\* While initlog has been run once, the messages a process sends with mylog are
\* in the file in the order it sent them, although queueing, receiving and
\* writing are steps of two processes.
WrittenInOrder ==
    Cardinality({m \in Main : pc[m] # "none"}) <= 1 =>
        \A p \in Sender : \A i, j \in DOMAIN file[p] :
            /\ {file[p][i], file[p][j]} \subseteq accepted
            /\ i < j
            => file[p][i].no < file[p][j].no

\* An accepted message does not stay with anybody: sooner or later it is off the
\* queue and out of every living process's buffer, with mylogd callers fighting
\* the logger for the mutex, files that do not open and a logger that is killed.
AcceptedMovesOn ==
    \A p \in Sender : \A n \in 1..MaxSent : \A t \in Content :
        LET m == [by |-> p, no |-> n, what |-> t]
        IN  m \in accepted ~> m \notin Elements(queue) \cup {hand[q] : q \in Process}

\* When files fail to open, no logger waits for the mutex forever: every return
\* of writelog and of mylogd has unlocked it.
WriterReturns ==
    \A p \in Process : pc[p] = "take" ~> pc[p] \in {"recv", "dead"}

\* A sender blocked on a full queue gets on although the logger that would have
\* emptied it is killed: removing the queue wakes it, whichever child the wait
\* of releaselog returned for.
SendersReturn ==
    \A p \in Sender : (pc[p] = "send" /\ \E m \in Main : pc[m] \in InRelease)
                          ~> pc[p] # "send"

============================================================================
