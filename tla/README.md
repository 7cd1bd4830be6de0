# KTRPG: a formal model

TLA+ modules, TLC runs and TLAPS proofs for the code of KTRPG that has
behaviour of its own: the shared mutex manager, the log, the chat server with its
start as a daemon, the chat client, and the programs that test them.
Line numbers are those of the files under `src/` (comments there are in
Shift-JIS).

## 1. The system

| part | state | operations | interacts with |
|---|---|---|---|
| `common/mymutex.c` | in shared memory: a process-shared pthread mutex and a `mutex_lock_count` per type, a table of 32 getters (who holds and awaits what); per process: `g_beforelock`, `mmjyunban` | `init_mymutex`, `mymutex_lock`, `mymutex_unlock`, `release_mymutex`; the checks `isDeadLock` and `isLockJyunbanOk` | callers in any process or thread; logs with `mylog` in every call, mostly while it holds `BEFORELOCK` |
| `common/log.c` | a System V message queue, a mutex in shared memory, `log_pid`, one file (see below) | `initlog` (forks the logger), `mylog`, `mylogd`, `releaselog` | senders in every process, one logger process, signals |
| `chatserver/server.c` (and the same file in `server/`) | `child[1024]`, `child_no`, the `select` mask, `errno`, the `g_got*` flags | `server_socket`, `accept_loop`, `send_recv_loop` | clients over TCP, signals through `my_handler.c` |
| `chatserver/main.c`, `daemon.c` | the chain of processes of one start, their signal dispositions | `daemonize`, `set_my_sig_action`, `server_socket`, `accept_loop` | whoever starts, signals or stops it |
| `chatclient/main.c` | one socket, standard input | `connect`, a first send, read and print, send on input | the server, the driver's pipe |
| `TEST/` | the processes of a test, pipes, `error.txt`, `result.txt`, `ok.txt`, `dame.txt` | start a server and clients, write to them, `SIGHUP`, look for strings in the output | server and clients |
| `my_mysql.c`, `main2.c`, `db.c` | none | stubs | |
| `account.h`, `packet.h`, `connect.h`, `npc.h`, `character.h` | types only | none | |

What is hard in each, and what makes it correct:

* **mutex manager.** `mymutex_lock` has four stretches (request and check under
  `BEFORELOCK`, the blocking `pthread_mutex_lock`, retaking `BEFORELOCK`,
  recording), `mymutex_unlock` two; between them the table and the pthread
  mutexes disagree. Correct: exclusion; the table tells the owners but for those
  gaps; exactly the deadlocks are reported; `BEFORELOCK` always comes back; a
  thread cannot free what it does not hold; order violations are reported.
* **log.** A message crosses a bounded queue, another process's buffer and a
  mutex; processes die at any point. Correct: accepted messages are written,
  once, each sender's in order; senders and writers are not left waiting.
  `commondef.h` defines `THISISTEST`: `mylog` and `mylogd` make every message a
  `LOG_TEST` message (219, 275), so nothing is dropped for its type, the traces of
  the lock manager are queued like its errors, and all of it is in `logtest.txt`.
* **start and tests.** Up to three processes of one start, a runner, a test
  program, a driver and clients, which know of each other only by `wait`, signals,
  broken pipes and ends of files, and wait with `sleep`. Correct: all of them end
  whatever fails; one start is at most one server; a test says ok only of a server
  that served; the runner prints what the test found.
* **chat server.** One thread, but clients connect, send, read and vanish between
  any two system calls, `send` may block, fail or be short, a signal may come
  anywhere, and `errno` is read after calls that do not set it. Correct: slot
  table, count and open connections agree; all clients are in one conversation,
  without gaps if sends block; slots are freed; the stop signal stops.

`PROJECT.json` lists every hazard at its line with the properties that cover it.

## 2. Modules

| module | models | 
|---|---|
| `MutexChecks` | the getter rows; `isDeadLock` (29-131), `isLockJyunbanOk` (134-181) as operators |
| `Mymutex` | `mymutex.c` as a transition system, an action per stretch of a call |
| `LockManager` | the abstract promise: exclusive blocking locks with an alarm for the request that closes a ring |
| `MymutexRefinement` | the mapping of `Mymutex` to `LockManager` |
| `MymutexMain` | `Mymutex` composed with `Log`, under callers with a fixed text of calls, one of those of `Texts`, like `main()` (646-702), with `kill`, `wait`, `release_mymutex`, `releaselog` |
| `DeadlockTables` | `isDeadLock` on every table of a size |
| `Log` | `log.c` |
| `ChatServer` | `accept_loop`, `send_recv_loop`, the signal handlers, and clients |
| `ChatRelay` | the abstract promise: one conversation, heard in one order from where one joins |
| `ChatRelayRefinement` | the history variables and the mapping of `ChatServer` to `ChatRelay` |
| `ServerMain` | `ChatServer` inside its program: `main`, `daemonize`, what a signal does at each stage |
| `ChatTest` | `ServerMain` with the clients' programs, the test programs, the runner, or an operator |
| `MC*` | constants for TLC |
| `LockManagerProofs`, `MutexChecksProofs`, `DeadlockTablesProofs`, `MymutexProofs`, `MymutexMainProofs`, `LogProofs`, `ChatServerProofs`, `ChatTestProofs` | theorems checked by TLAPS |

**Mymutex.** `pc[p]` says where a call is. `lk_guard`, `lk_back`, `ul_guard` wait
for `BEFORELOCK`; `lk_check` (422-532) and `lk_record` (338-353) run under it;
`lk_wait` is blocked at line 333; `ul_raw` has still to unlock the pthread mutex
(265) and `ul_clear` to clear the slots (267-310), two actions since a blocked
thread may take the mutex between them. `owner` stands for the pthread mutexes,
`mmgetter` for the table, `logged` for what the running or last call reported.
`g_beforelock` is the mode `init_mymutex` was given, chosen at the start and never
changed. `inside[p]` is the caller's own view: the types it locked, returned from and has
not begun to unlock. An argument that is no lockable type is refused
(`RefuseType`). The search for another holder (461-479) ends in an assignment
(472), or leaves `bbool` as it began (368), and so has no effect on what follows; its
branch (482-507) is dead. A walk
of `isDeadLock` that does not end leaves the caller in `spin`, with `BEFORELOCK`.
`Key[p]` is the pair of process and thread id, so that two threads may share one
(the Cygwin `gettid`, line 23). An unlock of a mutex someone else owns is
undefined for pthreads: both outcomes are in the model.

**MymutexMain.** `L` is `Log` with its `pc` renamed `logpc`: `Parent` has run
`initlog`, the others are its children, `logger` the process it forked. `ToSay(p)`
is what `p` logs before it goes on from where it is, in order and computed from the
state before the step; `told[p]` is how much of it `p` has logged, and the stretch is
taken when all of it is on the queue (`SaidAll`). So a call can wait for room on the
queue before it asks for `BEFORELOCK` (370, 557), while it has it (the traces of
`isDeadLock` and `isLockJyunbanOk`, and the complaints), between giving it back and
taking the mutex (332), and with the mutex taken and not yet recorded (334). (The
code has changed the row when it logs; nobody sees the row before `BEFORELOCK` comes
back.) A message says which complaint it is, or `"trace"`. No text passes a
type that is refused, so 373, 377, 559 and 563 are not reached here.

**Log.** `pc` is in `InLoop` for a logger, `InRelease` in `releaselog`.
`OpenQueue`, `ForkLogger` and `ForkFails` are `initlog`; `Mylog` and `Send` /
`SendFails`, `mylog`; `Receive`, `TakeMutex`, `Write`, `OpenFails`, the loop;
`Mylogd` goes on with the same three last. `KillLogger`, `WaitChild` and
`RemoveQueue` are `releaselog`. `Hangup` is the arrival of the signal,
`Crash` a death for another reason. The queue outlives the processes. `Content` is
what the text of a message may say; `file[p]` are the lines of sender `p` in the
file, in their order (how senders' lines are mixed no property asks).

**ChatServer.** One `pc` for the server: `test`, `select`, `accept`, `serve`,
`echo`, `cast`, `ended`. `pos` is the slot being served, `to` the one being sent
to, `rest` what the current `send` has not put yet. A blocking `send` puts units
one by one and waits for room; a non-blocking one returns short or with
`EAGAIN`. Whether accepted sockets inherit `FIONBIO` is chosen at the start
(`nonblocking`). `errno`
keeps the value of the last failure, since line 88 reads it. Texts end at the
first NUL (`strcat`, 106).

**ChatRelay.** `said` is the conversation: `recv` appends to it (`Say`), a `send`
that puts a unit moves a client's `place` in it (`Hear`). When the server waits for
readers, a `Hear` takes the next unit and a `Say` needs that all have heard; when it
does not, a `Hear` may skip. A text whose echo fails because its sender has gone is
sent to nobody (110-131): `Withdraw` takes it back before anyone has heard it. The
server keeps no such sequence, so `ChatRelayRefinement` adds `said` and `place` as
history variables: they follow the steps and guard none.

**ServerMain.** `life[p]` is how far the process got: `first` is the one started,
`child` and `grandchild` those of `daemonize`'s forks. A signal kills a process that
has no handler yet, is ignored as `SIGHUP` after `daemon.c:14`, and else goes to
`ChatServer`'s handlers. `out` and `counts` are the lines the tests look for.

**ChatTest.** `runner` is `TEST/main.c`; `test` the parent of a test program;
`life["first"]` the process it forks, which forks the `driver` and becomes the
server; `prog[c]` a client's process. The three test programs differ in `size`, the
number of clients: none (`TEST_simpleserveronly`), one (`TEST_simplechat`), more
(`TEST_twoclient`, which has sixteen). A `sleep` is no step: whoever sleeps may go
on before or after anybody else. In a daemon's run there is no test, and an
`Operator` sends signals.

## 3. Runs

| run | instance | checks |
|---|---|---|
| `mymutex_paired` | 3 threads, 3 types, a row each; callers pair their calls | exclusion, table against pthread mutexes, `Mymutex` implements `LockManager`, and seen through that mapping the alarm of `isDeadLock` against rings of blocked threads (none false, none missed) and that nobody gets out of one |
| `mymutex_shortage` | 3 threads, 2 rows, 2 types; callers may lock what they are inside, or what is no type; `t3` may be killed anywhere | who has a row owns what it is inside; two are inside one type only on a full table, one of them refused; the rows' wait marks; rings are still reported; `BEFORELOCK` is not kept; the mutexes of the dead stay locked |
| `mymutex_main` | over the log, with a queue of one and a row for each of two processes: those of `main()`, one that is blamed for its order beside another, or two that keep to the order, of which one uses a slot again; `g_beforelock` on or off | memory and queue are released when nobody uses them; a deadlock is told or does not happen, and its alarm gets into the file; `BEFORELOCK` comes back although messages wait for room; in order, both finish and nobody is blamed |
| `deadlock_tables` | 4 rows, 3 types, every table | `isDeadLock` says yes exactly on a ring, and does not return exactly beside one |
| `log_restart` | two processes that run `initlog` one after the other's death, a worker, two loggers | nothing accepted is lost, nothing is in two places, a single logger keeps each sender's order |
| `log_release` | one `initlog`, a worker, a queue of one; `releaselog`; `fopen` and `fork` may fail | senders return, loggers get the mutex, accepted messages move on |
| `chat_relay` | 3 clients, 2 slots, sockets blocking or not, any client but one may leave, aborted connections | `ChatServer` implements `ChatRelay`; slots, count and connections agree; what is received is in the order sent; no client is dropped that is there |
| `chat_live` | 3 clients, 2 slots, 2 descriptors, NULs, both kinds of signal, readers that read | slots of clients that left are freed, waiting connections answered, the stop signal stops |
| `chat_test` | tests with 0, 1 and 2 clients, and the daemon; `fork`, `exec` and set-up may fail | every process ends; what is printed is what was judged; an ok means connected clients and a server that left its loop; one start is at most one server |
| `mymutex_check_loops`, `mymutex_unlock_other`, `mymutex_order_refused` | see below | disagreements between the source's comments and what it does |

Why the bounds are enough: three threads and three types make a ring of one, two
and three, and one of two with a bystander; a walk that misses its ring needs
four, which is why `deadlock_tables` and `mymutex_check_loops` have four rows.
Slots need one more than the types for a gap and a reuse. Two rows for three
threads is the smallest shortage in which two rows' owners still contend. A
queue of one or two messages is full and empty in turn. Two slots with three
clients fill up and are used again; buffers of two units, with a sender of two
and one of one, give every short count. Types are interchangeable except for
their order. A queue of one in `mymutex_main` is full whenever a message is not yet received, so that every trace of one process can hold up the other;
`MaxSent` (30) is above what any text makes a process send, so it stops nobody there.
Two processes are the fewest of which one waits for the other's mutex while the
other waits for `BEFORELOCK` or for room; what needs no liveness is proved for any
number. Two clients in
`chat_test` are the fewest with one left behind when the other's pipe breaks; the
check of `TEST_twoclient` itself looks for counts up to two. `ok.txt` is there at
first, as it is in the repository. `mymutex_paired` uses the symmetry of threads, which is sound there:
`Init`, `Next` and the properties name no thread.

Named bounds: `CountBound` (how far stray unlocks drive the count down), `MaxSent`
(messages of a sender, units of each client), `QueueMax`, `BufMax`, `FdLimit`,
and that each kind of signal arrives once. The shared table's real size is 32
rows of 16 slots; nothing in the code depends on the numbers but the shortage.
`CHECK_DEADLOCK FALSE` stands where the system may stop: callers deadlock, or
have nothing left to do.

### Disagreements found

| run | what |
|---|---|
| `mymutex_check_loops` | the walk of `isDeadLock` can go round a ring for ever (92-98), under `BEFORELOCK`; the comment at 101 counts on its end |
| `mymutex_unlock_other` | any registered thread frees another's mutex, against the message at 609 |
| `mymutex_order_refused` | a caller out of order gets a mutex that nobody holds: with another row in use (else `bbool` is still the `MYMUTEX_YES` of 368) the `=` at 472 undoes what the search found, and the branch that refuses (482-494) is dead |

Seen on the way, and in the models, but checked by no run: rows are never freed
(`if (MYMUTEX_NO)`, 303), against the comment at 295, so that with 32 threads gone
idle the 33rd is refused and goes on without the mutex; an acquisition goes into
the first empty slot (343), so that a reused slot can hide a wrong order from
`isLockJyunbanOk`; where `gettid` is a constant (Cygwin, 23) the threads of a
process share a row and raise false alarms; `releaselog` drops accepted messages
that are still queued (`log.c` 342-356); a `SIGHUP` that arrives while the server
is not in `select` stops it without the "select: Interrupted system call" the
test programs look for.
`TEST_simplechat` can never say ok: its check wants `never give up`, which its
client cannot send, since `fgets` is commented out (`chatclient/main.c` 57). A test
that does not come to its check leaves the `ok.txt` of an earlier run, and the
runner prints `OK!!` (`TEST/main.c` 116-118): `PrintedAsJudged` says so much and no
more. `TEST_twoclient` starts sixteen clients and is content with two. `main` does
not look at `daemonize`'s -1 and goes on in the foreground; when the second fork
fails there is no server and no word of it. A client that comes before the server
listens dies of `SIGPIPE` on its first send.

## 4. Fairness

`MymutexMain`, `Log`, `ChatServer`, `ChatTest`: weak fairness of each process's own steps,
that is, a process that can run is scheduled in the end. No fairness of pthread
mutexes is assumed (who gets a contended one is open), nor that callers call,
clients connect, or anything fails or dies. `Log` assumes that a posted signal
arrives. `ChatServer` assumes that clients read, as the loop of
`chatclient/main.c` does; without it a `send` to a client that does not read
blocks the server, stop signal or not (the signal ends one blocked `send`; the
next blocks again). `ChatTest` assumes besides that the operator of the daemon sends
his signal until no process of it is left; which of two sleepers is first is open.

## 5. Proofs

TLAPS, for every value of the constants; `PROJECT.json` says which property of a
run each theorem states.

* `LockManagerProofs`: `TypeCorrect`; `DeadlocksAreForever` (a ring of blocked
  threads is never left); `AlarmsCorrect` (every ring has a member that was told,
  nobody outside one was). The argument: a request that makes a new ring is in
  it (`NewRingTold`), a told thread stays blocked in its ring (`ToldInRing`), and
  alarms are never taken back (`AlarmGrows`).
* `MutexChecksProofs`: `YesIsRing` and `LoopsIsBeside` say what `isDeadLock` answers
  on any table; `DeadlockTablesProofs` draws `YesExactlyOnRing` and
  `LoopsExactlyBeside` from them.
* `MymutexProofs`: `TypeCorrect`; `InsideMeansOwner` (callers that unlock only
  what they are inside own what they are inside, rows or no rows for others);
  `Exclusion` (with a row for every identity, two callers are never inside the
  same type);
  `FullTableExclusion` (`OnlyRefusedIntrude`: with
  any number of rows, two callers are inside one type only when every row is taken and
  one of them has none); `GuardGivenBack` (no call returns with
  `BEFORELOCK`, every early return included); `WaitsShown` (`RowsShowWaits`);
  `OwnersTold` (`TableTellsOwners`); `AbandonedKept` (nobody gets the mutex of a dead
  thread); `CallsImplementManager` (`Mymutex` implements `LockManager`) and what
  follows from it and `LockManagerProofs`: `CallsAlarm`, `CallsStayInRings`,
  `DeadlocksReported`.
* `MymutexMainProofs`: `ProcessesAreCallers` (the processes of `MymutexMain` are callers of
  `Mymutex`, so what is proved of it holds of them); `ReleaseFindsNobody`
  (`ReleasedAlone`); `OrderIsNeverBlamed` (`NobodyBlamed`) and
  `OrderNeverDeadlocks` (such processes block each other in no ring, with `BEFORELOCK` in
  use or without), for any number of processes and any texts.
* `LogProofs`: `TypeCorrect`; `WrittenOnce` (`NothingTwice`); `AcceptedKept`
  (`AcceptedNotLost`, when nothing fails, no logger is killed and nobody releases,
  but callers die and run `initlog` anew); `WrittenAsSent` (`WrittenInOrder`).
* `ChatServerProofs`: `SlotsAgree` (`SlotsMatch`, with signals, failures and
  departures); `KeptWithoutSignals` (`KeptWhileUp`); `ServerTypeCorrect`;
  `OneConversation` (`SameOrder`, with signals); `ServerImplementsRelay`.
* `ChatTestProofs`: `RunnerPrintsVerdict` (`PrintedAsJudged`), `OkIsEarned`
  (`OkMeansServed`), `OneOfStart` (`OneServer`), whatever fails and for any number of
  clients.

**The walk of `isDeadLock`.** What it computes is a function defined by recursion, so
nothing is proved by induction over its length. The proofs take the first step that
`returns` (or the last before a repetition) as a least or greatest number instead.
A walk that comes back to its start has gone round a ring (`BackMeansRing`); on a
ring the next row is a one-to-one function (`RingOneToOne`), so the rows walked are
all of it before the start comes again (`RoundTheRing`); and a walk of as many steps
as there are rows has repeated one (`StepsRepeat`, by the pigeonhole principle). A
walk that has not come back by then, and has a row aside that it never counts, never
returns: that is the disagreement of `mymutex_check_loops`, here for every table.

**Exclusion.** `InsideOwns` is not inductive. The invariant `IInv` adds where calls
are: `ClaimsOwned` (what a registered thread is inside, and what it has just taken and
not yet recorded, it owns), `CallsPlaced` (calls
are of the mode in use, a thread past its check has a row, a thread about to
unlock is no longer inside), `StrangersRefused` (a thread without a row is inside
something only if it was refused a row, and then no row is free). Rows are
never freed and a row never changes its identity, so `Registered` is stable:
that is the step on which the rest hangs, and it is the very behaviour that
line 295 denies. `FullTableExclusion` follows at once: who is inside without the mutex
was refused. `Exclusion` needs, besides, that a call finds no full
table without its own row: the rows of a full table are of distinct identities,
and without the caller's there are fewer identities than rows.

**The table.** Rows are looked up by identity and written by index; the two agree only
because identities in the table are distinct and a thread's index is its own row
(`WInv`, for `WaitsShown`). `OInv` adds, for `OwnersTold`, that whoever runs a stretch
under `BEFORELOCK` owns it (`GuardHeld`), that a type is in one slot of one row, that the
rows' types are owned by the rows' threads but for the gap between lines 265 and 267
(`Uncleared`) and the owned types recorded but for the one between 333 and 338
(`Unrecorded`). An acquisition finds an empty slot because a row never
records a type twice (`RoomForType`); with fewer slots than types it would be lost
without a word (343), so the theorem assumes as many.

**`LockManager`.** Under the mapping a check is a `Request`, the return of
`pthread_mutex_lock` a `Grant`, its unlock a `Release`; every other stretch, and the
walk that does not end, is a stutter. The step that needs an argument is the
check: `isDeadLock` sees the table and the alarm is about threads. While a check holds
`BEFORELOCK` nobody else records or clears, so a ring of rows is a ring of blocked threads
(`RingsAgree`): a member's mutex is owned by the member before it, and neither gap can be
open there, since threads in a gap do not wait.

**The release.** A process that is dead or through its text stays so (`GoneStays`), in the
middle of `mylog` too, so a `wait` that was passed still tells the truth
(`WaitedFor`); and the parent comes to its releases when it is in no other call
(`EndingLast`).

**The order.** What a process is inside of is a function of how far it is in its text
(`TextFollowed`), and its row holds just that and what it is giving back
(`InsideRecorded`). So each type goes into the first empty slot after all others, and
leaves from the last one taken (`Packed`, `RowsInOrder`: without the reverse order of
the unlocks a slot in the middle would be used again, and hide or feign a wrong
order). In a ring each row holds what the one before it awaits, and awaits something
later in the order than all it holds: the awaited type that stands last in the order
cannot be awaited in the ring (`NoRings`), and `isDeadLock` says yes on rings only. The
same argument about owners instead of rows gives `OrderNeverDeadlocks`.

**The log.** The queue, the buffers and the files share no message
(`Apart`), because a message is moved and never copied, and new ones have a number
above all others of their sender (`Numbered`). The order is an invariant of the whole
path: file before the logger's buffer before the queue before the caller's buffer
(`InOrder`, `Newest`); it needs that one run of `initlog` makes one process that
reads the queue (`OneLogger`), which includes the caller that becomes the logger
when fork fails.

**The chat server.** A connection that waits is not open and waits once
(`WaitingApart`), so that accept puts nobody into a second slot, and an echo
goes to a slot in use, the one the text was read from (`EchoBack`), so that a failed
echo closes the connection whose slot it frees. The order is proved of the server
with its history variables: units are numbered, so `said` has none twice; what the
server still has to send is the end of `said`; what a client has received is a selection
of `said` up to its `place`, with its places in order (`Placed`). For the refinement a
server that waits for its readers has, besides, sent the end of `said` to exactly the
slots it has passed, so that all have heard everything when the next text is read.

**The tests.** `TestInv` says how far the processes of a start can be from each other
(`Stages`, `Roles`: each goes on only when its parent is gone), that `ok.txt` is the
verdict's own from before the runner looks (`Verdicts`), that a server that has written
that select was interrupted leaves its loop by its end only (`Heeded`), and that no more
connections are reported than clients have got (`Counted`). Every step of a test
is a step of `ChatServer` or leaves it alone, so its invariant `SInv` is carried over.

**Assumptions.** The named ones of the modules, `ManagerAssumption` as a hypothesis
of the theorems of `LockManagerProofs` that need it, and these hypotheses where a
statement says so. `~StrayUnlock`: callers unlock only what they are
inside, else anybody frees anything (`mymutex_unlock_other`).
`Key \in Injection(Thread, Ident)`: no two threads share an identity, which holds but on
Cygwin. Finite `Ident` of at most as many as the rows: a caller without a row is
let in without the mutex, and the log says so. `MAX_MUTEX_NUM >= MYMUTEX_TYPE_MAX - 1`: as in the header (16 slots).
`MayDie = {}` and `Modes \subseteq {TRUE}`: nobody is killed and
`BEFORELOCK` is in use, for `OwnersTold` and the refinement only, since a thread killed
between two stretches leaves its gap open for ever and without `BEFORELOCK` checks and
records interleave; the other theorems about `Mymutex` hold for both
modes, for callers that relock and for threads killed anywhere.
`\A x \in Texts : WaitsForAll(x)`, for `ReleaseFindsNobody` alone: the parent releases
last, after a `wait` for each process that has calls to make, as `main()` does (674-678);
TLC checks it of the texts of `mymutex_main`, and that the one in order is the one in
`OrderedTexts`.
`Signals = {} \/ Platforms = {TRUE}`: no signal ends a blocked `send`, which would make
the server close the connection of a client that is there, or leave a gap. `Reliable`
and finiteness of `Process` or `Main` for `Log`.

**Only model-checked.** Liveness, which is out of this prover's reach: `EndsOrTold`,
`AllFinish`, `AlarmWritten`, `GuardReturns`, `SendersReturn`, `WriterReturns`,
`AcceptedMovesOn`, `LeftFreed`, `StopEnds`, `WaitingAnswered`, `EverybodyEnds`; those of
`MymutexMain` with two processes. Every
other property of a passing run is stated by a theorem.

## 6. Not modelled

The `IAMWINDOWS` build; comments, text and length of log messages (a text of 512
bytes is one past its buffer in `mylog`, and one past `buf` in `send_recv_loop`:
indexes outside an array have no meaning in the model); `mystrlcat`, which nothing
calls; which descriptors `daemonize` closes; `server/`, the same files as
`chatserver/` but for three lines of `main.c`; headers without code; the MySQL and
database stubs.

## 7. Plan

1. What liveness rests on and is no liveness itself: that a process which cannot
   proceed waits for one that can, as invariants of `MymutexMain`, `Log` and `ChatTest`.
2. `Strlcat` (`mystrlcat` against a reference definition), should anything call it.
3. The Windows branches, should anything build them: their mutexes are recursive and
   abandoned ones are reported, so they need an `owner` of their own.
