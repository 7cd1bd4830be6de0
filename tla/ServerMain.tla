----------------------------- MODULE ServerMain -----------------------------
(***************************************************************************)
(* The program around ChatServer: chatserver/main.c, which may detach      *)
(* itself (daemon.c), installs its handlers, opens the listening socket    *)
(* and runs the loop.  One start of it is up to three processes.           *)
(*                                                                         *)
(* What a signal does depends on how far its process has got: it kills, is *)
(* ignored, or sets the flag that accept_loop tests.                       *)
(***************************************************************************)
EXTENDS ChatServer

CONSTANTS
    MayFail     \* fork, exec and the calls of server_socket may fail

ASSUME FailAssumption == MayFail \in BOOLEAN

Process == {"first", "child", "grandchild"}

VARIABLES
    daemon_flg,     \* argv[2]
    life,           \* how far each process has got
    out, counts     \* the lines written (a daemon's go to /dev/null): the texts
                    \* and the child counts

program == <<daemon_flg, life, out, counts>>

\* "fork" and "exec" are for those who start the program; its main begins in
\* "boot", runs daemonize in "child", "leader" and "detached", and has set its
\* handlers in "socket" and "loop".
Life == {"none", "fork", "exec", "boot", "child", "leader", "detached",
         "socket", "loop", "gone"}

\* The globals are set to 0 and nothing is open when main begins.
ProgramInit ==
    /\ Init
    /\ daemon_flg \in BOOLEAN
    /\ out = {} /\ counts = {}

Alive(p) == life[p] \notin {"none", "gone"}
Becomes(p, l) == life' = [life EXCEPT ![p] = l]
Listening == \E p \in Process : life[p] = "loop"

----------------------------------------------------------------------------
(* main and daemonize *)

\* Faulty variant: the parent goes on.
DetachStaying ==
    /\ life["first"] = "boot" /\ daemon_flg
    /\ life' = [life EXCEPT !["first"] = "socket", !["child"] = "child"]
    /\ UNCHANGED <<out, counts>>

\* The first fork: the parent exits.
Detach ==
    /\ life["first"] = "boot" /\ daemon_flg
    /\ life' = [life EXCEPT !["first"] = "gone", !["child"] = "child"]
    /\ UNCHANGED <<out, counts>>

\* A session of its own, and SIGHUP is ignored from here on.
Setsid ==
    /\ life["child"] = "child"
    /\ Becomes("child", "leader")
    /\ UNCHANGED <<out, counts>>

\* The second fork: the parent exits, and it does so too when fork has failed.
DetachAgain ==
    /\ life["child"] = "leader"
    /\ \E l \in {"detached"} \cup (IF MayFail THEN {"none"} ELSE {}) :
           life' = [life EXCEPT !["child"] = "gone", !["grandchild"] = l]
    /\ UNCHANGED <<out, counts>>

\* set_my_sig_action.  A daemonize whose first fork failed returns -1, which
\* main does not look at: the program goes on in the foreground.
set_my_sig_action(p) ==
    /\ \/ life[p] = "boot" /\ (daemon_flg => MayFail)
       \/ life[p] = "detached"
    /\ Becomes(p, "socket")
    /\ UNCHANGED <<out, counts>>

\* server_socket: bind fails while another process has the port.
server_socket(p) ==
    /\ life[p] = "socket"
    /\ \/ ~Listening /\ Becomes(p, "loop") /\ out' = out \cup {"ready for accept"}
       \/ (MayFail \/ Listening) /\ Becomes(p, "gone") /\ UNCHANGED out
    /\ UNCHANGED counts

\* A step of accept_loop; the count of the children is written before select.
Serve(p) ==
    /\ life[p] = "loop"
    /\ UNCHANGED nonblocking /\ ServerStep
    /\ counts' = IF pc = "test" /\ pc' = "select" THEN counts \cup {child_no} ELSE counts
    /\ UNCHANGED <<life, out>>

\* accept_loop returned; exit closes every connection.
Exit(p) ==
    /\ life[p] = "loop" /\ pc = "ended"
    /\ Becomes(p, "gone")
    /\ UNCHANGED <<out, counts>>

\* What p does by itself.
ProgramStep(p) ==
    /\ UNCHANGED daemon_flg
    /\ \/ /\ UNCHANGED <<server, clients, nonblocking>>
          /\ \/ p = "first" /\ Detach
             \/ p = "child" /\ (Setsid \/ DetachAgain)
             \/ set_my_sig_action(p) \/ server_socket(p) \/ Exit(p)
       \/ Serve(p)

----------------------------------------------------------------------------
(* Signals *)

\* accept_loop is told by the flag, at once if it waits in a call, and says so
\* if that was select.
Caught ==
    \/ Signal("stop") /\ UNCHANGED out
    \/ /\ SelectInterrupted("stop")
       /\ out' = out \cup {"select: Interrupted system call"}
    \/ SendInterrupted("stop") /\ UNCHANGED out

\* What process p does with a SIGTERM or SIGHUP.
Kills(p, sig) ==
    life[p] \in {"fork", "exec", "boot", "child"}
        \cup (IF sig = "TERM" THEN {"leader", "detached"} ELSE {})
Catches(p) == life[p] \in {"socket", "loop"} /\ "stop" \notin g_got

Deliver(p, sig) ==
    /\ \/ Kills(p, sig) /\ Becomes(p, "gone") /\ UNCHANGED <<server, clients, out>>
       \/ Catches(p) /\ Caught /\ UNCHANGED life
       \/ ~Kills(p, sig) /\ ~Catches(p) /\ UNCHANGED <<server, clients, life, out>>
    /\ UNCHANGED <<daemon_flg, counts, nonblocking>>

=============================================================================
