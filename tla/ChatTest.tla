------------------------------ MODULE ChatTest ------------------------------
(***************************************************************************)
(* TEST/: the runner starts a test program, which starts the server and a  *)
(* driver; the driver starts clients (chatclient/main.c) with a pipe for   *)
(* their standard input, writes to them and hangs them up; the test        *)
(* program hangs up the server and looks through what it wrote.  They wait *)
(* for each other with sleep: here every order is possible.                *)
(*                                                                         *)
(* TEST_simpleserveronly is the test with no client, TEST_simplechat the   *)
(* one with one, TEST_twoclient the one with more.  Besides, the server    *)
(* may be started as a daemon and be ended by an operator.                 *)
(***************************************************************************)
EXTENDS ServerMain

CONSTANTS
    Order,      \* the clients, in the order they are made
    Tests       \* how many clients the tests have

ASSUME TestAssumption ==
    /\ IsInjective(Order) /\ Range(Order) \subseteq Client
    /\ Tests \subseteq 0..Len(Order)
    /\ Nuls # {} /\ Client \subseteq MayLeave

VARIABLES
    size,           \* the number of clients in this test (CLIENT_NUM)
    runner, test,   \* TEST/main.c, and the parent in the test program
    driver, at,     \* the process that makes the clients; its loop's next one
    prog,           \* the clients' processes
    fed,            \* clients whose pipe has been written to; nobody reads it
    error,          \* error.txt is not empty
    okfile,         \* ok.txt is there, be it from this test or from an earlier one
    verdict         \* what result_check said this time

harness == <<size, runner, test, driver, at, prog, fed, error, okfile, verdict>>
testvars == <<vars, program, harness>>

\* ok.txt is there from an earlier run, as it is in the repository; or an operator
\* has started the daemon.
TestInit ==
    /\ ProgramInit
    /\ life = [p \in Process |-> IF p = "first" /\ daemon_flg THEN "boot" ELSE "none"]
    /\ runner = (IF daemon_flg THEN "none" ELSE "run")
    /\ size \in (IF daemon_flg THEN {0} ELSE Tests)
    /\ test = "none" /\ driver = "none" /\ at = 1
    /\ prog = [c \in Client |-> "none"]
    /\ fed = {} /\ error = FALSE /\ okfile = TRUE /\ verdict = "none"

Member == Order[at]
Pipe(c) == CHOOSE i \in 1..size : Order[i] = c

----------------------------------------------------------------------------
(* TEST/main.c *)

\* The runner starts main.exe; when it does not start, or dies of a missing
\* temp/, nobody is told.
RunTest ==
    /\ runner = "run"
    /\ runner' = "wait"
    /\ \/ test' = "begun"
       \/ MayFail /\ test' = "done"
    /\ UNCHANGED <<vars, program, driver, at, prog, fed, error, okfile, verdict>>

WaitTest ==
    /\ runner = "wait" /\ test = "done"
    /\ runner' = "look"
    /\ UNCHANGED <<vars, program, test, driver, at, prog, fed, error, okfile, verdict>>

Look ==
    /\ runner = "look"
    /\ runner' = IF okfile THEN "OK!!" ELSE "DAME......"
    /\ UNCHANGED <<vars, program, test, driver, at, prog, fed, error, okfile, verdict>>

----------------------------------------------------------------------------
(* The test program: the parent *)

ForkServer ==
    /\ test = "begun"
    /\ \/ test' = "sleep" /\ Becomes("first", "fork") /\ UNCHANGED error
       \/ MayFail /\ test' = "done" /\ error' = TRUE /\ UNCHANGED life
    /\ UNCHANGED <<vars, daemon_flg, out, counts, runner, driver, at, prog, fed,
                   okfile, verdict>>

HangUpServer ==
    /\ test = "sleep"
    /\ Deliver("first", "HUP")
    /\ test' = "wait"
    /\ UNCHANGED <<runner, driver, at, prog, fed, error, okfile, verdict>>

\* Faulty variant: the counts are not looked for.
result_check_uncounted ==
    {"ready for accept", "select: Interrupted system call"} \subseteq out

\* The strings in the server's output: the counts, but of many clients only two
\* are looked for; with one client also what it should have said and cannot say
\* (its fgets is commented out).  With two or more, error.txt has to be empty.
result_check ==
    /\ {"ready for accept", "select: Interrupted system call"} \subseteq out
    /\ 0..Min({size, 2}) \subseteq counts
    /\ size # 1
    /\ size > 1 => ~error

\* Faulty variant: ok.txt is not removed.
JudgeKeeping ==
    /\ test = "wait" /\ life["first"] = "gone"
    /\ verdict' = IF result_check THEN "ok" ELSE "dame"
    /\ okfile' = (okfile \/ result_check)
    /\ test' = "done"
    /\ UNCHANGED <<vars, program, runner, driver, at, prog, fed, error>>

\* wait has returned: ok.txt and dame.txt are removed and one of them written.
Judge ==
    /\ test = "wait" /\ life["first"] = "gone"
    /\ verdict' = IF result_check THEN "ok" ELSE "dame"
    /\ okfile' = result_check
    /\ test' = "done"
    /\ UNCHANGED <<vars, program, runner, driver, at, prog, fed, error>>

----------------------------------------------------------------------------
(* The test program: the process that becomes the server *)

ForkDriver ==
    /\ life["first"] = "fork"
    /\ \/ /\ Becomes("first", "exec") /\ UNCHANGED error
          /\ driver' = IF size = 0 THEN "none" ELSE "make"
       \/ /\ MayFail /\ size > 0
          /\ Becomes("first", "gone") /\ error' = TRUE /\ UNCHANGED driver
    /\ UNCHANGED <<vars, daemon_flg, out, counts, runner, test, at, prog, fed,
                   okfile, verdict>>

ExecServer ==
    /\ life["first"] = "exec"
    /\ \/ Becomes("first", "boot") /\ UNCHANGED error
       \/ MayFail /\ Becomes("first", "gone") /\ error' = TRUE
    /\ UNCHANGED <<vars, daemon_flg, out, counts, runner, test, driver, at, prog,
                   fed, okfile, verdict>>

----------------------------------------------------------------------------
(* The test program: the driver *)

\* The next client, or the next stage of the driver when that was the last.
Advance(stage) ==
    IF at < size THEN at' = at + 1 /\ UNCHANGED driver
                 ELSE at' = 1 /\ driver' = stage

\* When a client cannot be made the driver returns and leaves the others alone.
makeclient ==
    /\ driver = "make"
    /\ \/ prog' = [prog EXCEPT ![Member] = "born"] /\ Advance("write") /\ UNCHANGED error
       \/ MayFail /\ driver' = "done" /\ error' = TRUE /\ UNCHANGED <<at, prog>>
    /\ UNCHANGED <<vars, program, runner, test, fed, okfile, verdict>>

\* A write to the pipe of a client that is dead kills the driver: SIGPIPE.
WriteTo ==
    /\ driver = "write"
    /\ \/ /\ prog[Member] # "dead"
          /\ fed' = fed \cup {Member} /\ Advance("kill")
       \/ /\ prog[Member] = "dead"
          /\ driver' = "done" /\ UNCHANGED <<at, fed>>
    /\ UNCHANGED <<vars, program, runner, test, prog, error, okfile, verdict>>

\* Client c ends and its connection is shut, if it has one.
Dies(c) ==
    /\ prog' = [prog EXCEPT ![c] = "dead"]
    /\ IF state[c] = "up" THEN Leave(c) ELSE UNCHANGED <<server, clients>>
    /\ UNCHANGED nonblocking

HangUpClient ==
    /\ driver = "kill"
    /\ IF prog[Member] = "dead" THEN UNCHANGED <<vars, prog>> ELSE Dies(Member)
    /\ Advance("wait")
    /\ UNCHANGED <<program, runner, test, fed, error, okfile, verdict>>

\* wait takes whichever client has died.
WaitClient ==
    /\ driver = "wait"
    /\ \E i \in 1..size : prog[Order[i]] = "dead"
    /\ driver' = "done"
    /\ UNCHANGED <<vars, program, runner, test, at, prog, fed, error, okfile, verdict>>

----------------------------------------------------------------------------
(* chatclient/main.c *)

\* The server's end of c's connection is closed, and c finds it reset: something
\* it sent was not read, or it was never accepted.
Reset(c) == ~Listening /\ (tosrv[c] # <<>> \/ Contains(backlog, c))

\* Standard input is readable: nobody takes out what was written, or nobody is
\* left who could write (a client has the ends of the pipes made before its own).
Readable0(c) ==
    \/ c \in fed
    \/ /\ driver = "done" \/ driver = "wait" \/ (driver = "kill" /\ at > Pipe(c))
       /\ \A i \in Pipe(c) + 1 .. size : prog[Order[i]] \in {"none", "dead"}

\* exec, and the connect whose failure goes unnoticed.
StartClient(c) ==
    /\ prog[c] = "born"
    /\ \/ /\ prog' = [prog EXCEPT ![c] = "hello"] /\ UNCHANGED <<error, nonblocking>>
          /\ IF Listening THEN Connect(c) ELSE UNCHANGED <<server, clients>>
       \/ MayFail /\ Dies(c) /\ error' = TRUE

\* The first send; without a connection it raises SIGPIPE.
Hello(c) ==
    /\ prog[c] = "hello"
    /\ \/ state[c] = "out" /\ Dies(c)
       \/ /\ ClientSend(c)
          /\ prog' = [prog EXCEPT ![c] = "loop"] /\ UNCHANGED nonblocking
    /\ UNCHANGED error

\* Faulty variant: the client ignores SIGPIPE and the errors of its calls.
BreaksNot(c) ==
    /\ prog[c] = "loop" /\ Reset(c)
    /\ UNCHANGED <<vars, prog, error>>

\* A read that fails ends the client, as does a send on a connection reset.
Breaks(c) ==
    /\ prog[c] = "loop" /\ Reset(c)
    /\ Dies(c)
    /\ UNCHANGED error

\* The loop: what has come is read, an end of file is ignored; when the standard
\* input is readable sixteen NULs are sent, and it remains readable.
SendNuls(c) ==
    /\ prog[c] = "loop" /\ state[c] = "up"
    /\ Readable0(c) /\ ~Reset(c) /\ Len(tosrv[c]) < BufMax
    /\ tosrv' = [tosrv EXCEPT ![c] = Append(@, [by |-> c, no |-> Min(Nuls)])]
    /\ UNCHANGED <<server, backlog, open, state, tocl, sent, got, nonblocking,
                   prog, error>>

ReadSocket(c) ==
    /\ prog[c] = "loop" /\ ClientRead(c)
    /\ UNCHANGED <<nonblocking, prog, error>>

ClientProgram(c) ==
    /\ StartClient(c) \/ Hello(c) \/ Breaks(c) \/ SendNuls(c) \/ ReadSocket(c)
    /\ UNCHANGED <<program, runner, test, driver, at, fed, okfile, verdict>>

----------------------------------------------------------------------------

\* The operator of the daemon ends every process of it, at any time.
Operator ==
    /\ daemon_flg
    /\ \E p \in Process, sig \in {"HUP", "TERM"} : Alive(p) /\ Deliver(p, sig)
    /\ UNCHANGED harness

Runner == RunTest \/ WaitTest \/ Look
Parent == ForkServer \/ HangUpServer \/ Judge
Starter == ForkDriver \/ ExecServer
Driver == makeclient \/ WriteTo \/ HangUpClient \/ WaitClient
Program == (\E p \in Process : ProgramStep(p)) /\ UNCHANGED harness

TestNext ==
    /\ UNCHANGED size
    /\ \/ Runner \/ Parent \/ Starter \/ Driver \/ Program \/ Operator
       \/ \E c \in Client : ClientProgram(c)

TestSpec == TestInit /\ [][TestNext]_testvars

\* Every process is scheduled: a sleep ends, and the operator acts in the end.
\* Which of two processes is first is open.
FairTestSpec ==
    /\ TestSpec
    /\ WF_testvars(UNCHANGED size /\ Runner) /\ WF_testvars(UNCHANGED size /\ Parent)
    /\ WF_testvars(UNCHANGED size /\ Starter) /\ WF_testvars(UNCHANGED size /\ Driver)
    /\ WF_testvars(UNCHANGED size /\ Program) /\ WF_testvars(UNCHANGED size /\ Operator)
    /\ \A c \in Client : WF_testvars(UNCHANGED size /\ ClientProgram(c))

----------------------------------------------------------------------------
(* Properties *)

AllEnded ==
    /\ \A p \in Process : ~Alive(p)
    /\ runner \in {"none", "OK!!", "DAME......"} /\ test \in {"none", "done"}
    /\ driver \in {"none", "done"}
    /\ \A c \in Client : prog[c] \in {"none", "dead"}

\* No process of a test outlives it: whatever fails to start, and whoever is
\* killed before he has hung up the others, an end of file and a SIGPIPE reach
\* those who are left (and an operator gets rid of the daemon).
EverybodyEnds == <>AllEnded

\* What the runner prints is what the test program found this time, if it found
\* anything: the ok.txt of an earlier run does not survive a run that is judged.
PrintedAsJudged ==
    runner \in {"OK!!", "DAME......"} /\ verdict # "none"
        => (runner = "OK!!" <=> verdict = "ok")

\* A test that says ok has had as many clients connected as it looks for, and its
\* server left accept_loop because of the signal: it was not killed, nor did it fail.
OkMeansServed ==
    verdict = "ok" =>
        /\ pc = "ended"
        /\ Cardinality({c \in Client : state[c] # "out"}) >= Min({size, 2})

\* However the forks of daemonize end, at most one process of a start gets past
\* it: no two of them go on to bind the port and to serve.
OneServer ==
    Cardinality({p \in Process : life[p] \in {"boot", "detached", "socket", "loop"}}) <= 1

============================================================================
