---------------------------- MODULE ChatTestProofs ----------------------------
(***************************************************************************)
(* Proofs about ChatTest: the processes of a start, of a test and of its   *)
(* runner, for any number of clients, whatever fails and whoever is first. *)
(* (said and place, of ChatServerProofs, have no part in them.)            *)
(***************************************************************************)
EXTENDS ChatTest, ChatServerProofs

Interrupted == "select: Interrupted system call"

\* The clients that have got a connection.
Present == {c \in Client : state[c] # "out"}

\* How far a process of a start has got tells where the others are: each goes on
\* only when its parent is gone.
Stages ==
    /\ life \in [Process -> Life]
    /\ daemon_flg \in BOOLEAN
    /\ life["first"] \in {"none", "fork", "exec", "boot", "socket", "loop", "gone"}
    /\ life["child"] \in {"none", "child", "leader", "gone"}
    /\ life["grandchild"] \in {"none", "detached", "socket", "loop", "gone"}
    /\ life["child"] # "none" => daemon_flg /\ life["first"] = "gone"
    /\ life["grandchild"] # "none" => life["child"] = "gone"

\* The runner waits for the test, and the test makes the first process.
Roles ==
    /\ runner \in {"none", "run", "wait", "look", "OK!!", "DAME......"}
    /\ test \in {"none", "begun", "sleep", "wait", "done"}
    /\ daemon_flg => runner = "none" /\ test = "none"
    /\ ~daemon_flg /\ test \in {"none", "begun"} => life["first"] = "none"
    /\ runner \in {"none", "run"} => test = "none"
    /\ runner \in {"look", "OK!!", "DAME......"} => test = "done"

\* ok.txt is that of the verdict, once there is one, and what the runner saw.
Verdicts ==
    /\ verdict \in {"none", "ok", "dame"}
    /\ verdict # "none" => test = "done" /\ (okfile <=> verdict = "ok")
    /\ runner = "OK!!" => okfile
    /\ runner = "DAME......" => ~okfile

\* The server of a test has moved only in accept_loop; when it has written that
\* select was interrupted, it leaves the loop in no way but by its end.
Heeded ==
    ~daemon_flg =>
        /\ life["first"] \in {"none", "fork", "exec", "boot", "socket"}
               => pc = "test" /\ Interrupted \notin out
        /\ Interrupted \in out /\ life["first"] = "gone" => pc = "ended"

\* A count that was written is one of clients that have connected.
Counted ==
    /\ IsFiniteSet(Present)
    /\ \A n \in counts : n \in Nat /\ n <= Cardinality(Present)

TestInv == SInv /\ Stages /\ Roles /\ Verdicts /\ Heeded /\ Counted /\ OkMeansServed

----------------------------------------------------------------------------
(* The steps of the server in a test *)

\* A client that sends NULs: nothing else moves.
OnlySends == UNCHANGED <<server, backlog, open, state, nonblocking>>

LEMMA ClientSteps ==
  ASSUME NEW c \in Client, ClientProgram(c)
  PROVE  /\ [Next]_vars \/ OnlySends
         /\ UNCHANGED <<server, program, runner, test, okfile, verdict>>
<1>1. ASSUME Dies(c)
      PROVE  [Next]_vars /\ UNCHANGED server
  BY <1>1 DEF Dies, Leave, Next, ClientStep, vars
<1>2. CASE StartClient(c)
  BY <1>1, <1>2 DEF StartClient, Connect, ClientProgram, Next, ClientStep, vars
<1>3. CASE Hello(c)
  BY <1>1, <1>3 DEF Hello, ClientSend, ClientProgram, Next, ClientStep, vars
<1>4. CASE Breaks(c)
  BY <1>1, <1>4 DEF Breaks, ClientProgram
<1>5. CASE SendNuls(c)
  BY <1>5 DEF SendNuls, OnlySends, ClientProgram
<1>6. CASE ReadSocket(c)
  BY <1>6 DEF ReadSocket, ClientRead, ClientProgram, Next, ClientStep, vars
<1> QED
  BY <1>2, <1>3, <1>4, <1>5, <1>6 DEF ClientProgram

\* A signal to a process of the start.
LEMMA SignalSteps ==
  ASSUME NEW p \in Process, NEW sig, Deliver(p, sig)
  PROVE  /\ [Next]_vars /\ UNCHANGED <<daemon_flg, counts>>
         /\ \/ UNCHANGED <<server, life, out>>
            \/ /\ life[p] \in {"fork", "exec", "boot", "child", "leader", "detached"}
               /\ Becomes(p, "gone") /\ UNCHANGED <<server, out>>
            \/ /\ life[p] \in {"socket", "loop"} /\ UNCHANGED life
               /\ Signal("stop") /\ UNCHANGED out
            \/ /\ life[p] \in {"socket", "loop"} /\ UNCHANGED life
               /\ SelectInterrupted("stop") /\ out' = out \cup {Interrupted}
            \/ /\ life[p] \in {"socket", "loop"} /\ UNCHANGED life
               /\ SendInterrupted("stop") /\ UNCHANGED out
<1>1. ASSUME Caught, UNCHANGED nonblocking
      PROVE  Next
  BY <1>1 DEF Caught, Signal, SelectInterrupted, SendInterrupted, Flag, SignalStep, Next
<1>2. CASE Kills(p, sig) /\ Becomes(p, "gone") /\ UNCHANGED <<server, clients, out>>
  BY <1>2 DEF Deliver, Kills, vars
<1>3. CASE Catches(p) /\ Caught /\ UNCHANGED life
  BY <1>1, <1>3 DEF Deliver, Catches, Caught, Interrupted
<1>4. CASE UNCHANGED <<server, clients, life, out>>
  BY <1>4 DEF Deliver, vars
<1> QED
  BY <1>2, <1>3, <1>4 DEF Deliver

\* Every step of a test is one of ChatServer, none of it, or a client's NULs.
LEMMA StepsOfServer ==
  ASSUME TestNext
  PROVE  [Next]_vars \/ OnlySends
<1>1. CASE Runner
  BY <1>1 DEF Runner, RunTest, WaitTest, Look
<1>2. CASE Parent
  <2>1. ASSUME HangUpServer PROVE [Next]_vars
    BY <2>1, SignalSteps DEF HangUpServer, Process
  <2> QED
    BY <1>2, <2>1 DEF Parent, ForkServer, Judge
<1>3. CASE Starter
  BY <1>3 DEF Starter, ForkDriver, ExecServer
<1>4. CASE Driver
  <2>1. ASSUME NEW c, Dies(c), c \in Client
        PROVE  [Next]_vars
    BY <2>1 DEF Dies, Leave, Next, ClientStep, vars
  <2>2. ASSUME NEW c, Dies(c), c \notin Client
        PROVE  [Next]_vars
    BY <2>2, TestAssumption, ServerAssumption DEF Dies, Leave, Next, ClientStep, vars
  <2> QED
    BY <1>4, <2>1, <2>2 DEF Driver, makeclient, WriteTo, HangUpClient, WaitClient
<1>5. CASE Program
  <2> PICK p \in Process : ProgramStep(p)
    BY <1>5 DEF Program
  <2>1. ASSUME Serve(p) PROVE Next
    BY <2>1 DEF Serve, Next
  <2> QED
    BY <2>1 DEF ProgramStep, vars
<1>6. CASE Operator
  BY <1>6, SignalSteps DEF Operator
<1>7. CASE \E c \in Client : ClientProgram(c)
  BY <1>7, ClientSteps
<1> QED
  BY <1>1, <1>2, <1>3, <1>4, <1>5, <1>6, <1>7 DEF TestNext

LEMMA SInvKept ==
  ASSUME SInv, [Next]_vars \/ OnlySends
  PROVE  SInv'
<1>1. CASE OnlySends
  BY <1>1, NothingMoves DEF OnlySends, server, SInv, EchoBack
<1> QED
  BY <1>1, SInvStep

\* Who has connected stays among those who have, and one at a time joins them.
LEMMA PresentGrows ==
  ASSUME SInv, [Next]_vars \/ OnlySends
  PROVE  Present' = Present \/ \E c \in Client : Present' = Present \cup {c}
<1>1. CASE UNCHANGED state
  BY <1>1 DEF Present
<1>2. CASE UNCHANGED vars \/ OnlySends
  BY <1>1, <1>2 DEF vars, clients, OnlySends
<1>3. CASE LoopStep \/ RecvStep
  BY <1>1, <1>3 DEF LoopStep, Test, Select, Accept, AcceptFull, AcceptFails, AcceptNone,
        ServeDone, clients, RecvStep, Recv, RecvEOF, RecvError
<1>4. CASE SendStep
  <2>1. CASE SendGone
    <3>1. \A c \in Client : state'[c] = "out" <=> state[c] = "out"
      BY <2>1 DEF SendGone, SInv
    <3> QED
      BY <3>1 DEF Present
  <2> QED
    BY <1>1, <1>4, <2>1 DEF SendStep, SendUnit, SendDone, SendFull, SendFails
<1>5. CASE SignalStep
  BY <1>1, <1>5 DEF SignalStep, Signal, SelectInterrupted, SendInterrupted, clients
<1>6. ASSUME NEW c \in Client, ClientStep(c)
      PROVE  Present' = Present \/ Present' = Present \cup {c}
  <2>1. CASE Connect(c)
    BY <2>1 DEF Connect, SInv, Present
  <2>2. CASE Leave(c)
    BY <2>2 DEF Leave, SInv, Present
  <2>3. CASE ClientSend(c) \/ ClientRead(c)
    BY <2>3 DEF ClientSend, ClientRead, Present
  <2> QED
    BY <1>6, <2>1, <2>2, <2>3 DEF ClientStep
<1> QED
  BY <1>2, <1>3, <1>4, <1>5, <1>6 DEF Next, ServerStep

\* A server that has left its loop does not come back.
LEMMA EndedStays ==
  ASSUME pc = "ended", [Next]_vars \/ OnlySends
  PROVE  pc' = "ended"
<1>1. CASE OnlySends \/ UNCHANGED vars
  BY <1>1 DEF OnlySends, vars, server
<1>2. ASSUME ServerStep PROVE FALSE
  BY <1>2 DEF ServerStep, LoopStep, Test, Select, Accept, AcceptFull, AcceptFails, AcceptNone,
     ServeDone, RecvStep, Recv, RecvEOF, RecvError, SendStep, Sending, SendUnit, SendDone,
     SendFull, SendGone, SendFails
<1>3. CASE SignalStep
  BY <1>3 DEF SignalStep, Signal, SelectInterrupted, SendInterrupted, Sending
<1>4. ASSUME NEW c \in Client, ClientStep(c)
      PROVE  UNCHANGED pc
  BY <1>4 DEF ClientStep, Connect, ClientSend, ClientRead, Leave, server
<1> QED
  BY <1>1, <1>2, <1>3, <1>4 DEF Next

----------------------------------------------------------------------------
(* The processes *)

LEMMA StagesStep ==
  ASSUME Stages, Roles, TestNext
  PROVE  Stages' /\ Roles'
<1>0. {"first", "child", "grandchild"} = Process
  BY DEF Process
<1>1. CASE Runner
  BY <1>1 DEF Runner, RunTest, WaitTest, Look, program, Stages, Roles
<1>2. CASE Parent
  <2>1. CASE ForkServer \/ Judge
    BY <1>0, <2>1 DEF ForkServer, Judge, program, Becomes, Life, Stages, Roles
  <2>2. CASE HangUpServer
    BY <1>0, <2>2, SignalSteps DEF HangUpServer, Becomes, Life, Stages, Roles
  <2> QED
    BY <1>2, <2>1, <2>2 DEF Parent
<1>3. CASE Starter
  BY <1>0, <1>3 DEF Starter, ForkDriver, ExecServer, Becomes, Life, Stages, Roles
<1>4. CASE Driver
  BY <1>4 DEF Driver, makeclient, WriteTo, HangUpClient, WaitClient, program, Stages, Roles
<1>5. CASE Program
  <2> PICK p \in Process : ProgramStep(p)
    BY <1>5 DEF Program
  <2>1. UNCHANGED <<daemon_flg, runner, test>>
    BY <1>5 DEF Program, ProgramStep, harness
  <2>2. CASE p = "first" /\ Detach
    BY <1>0, <2>1, <2>2 DEF Detach, Life, Stages, Roles
  <2>3. CASE p = "child" /\ (Setsid \/ DetachAgain)
    BY <1>0, <2>1, <2>3 DEF Setsid, DetachAgain, Becomes, Life, Stages, Roles
  <2>4. CASE set_my_sig_action(p) \/ server_socket(p) \/ Exit(p)
    BY <1>0, <2>1, <2>4 DEF set_my_sig_action, server_socket, Exit, Becomes, Life, Stages, Roles
  <2>5. CASE Serve(p)
    BY <2>1, <2>5 DEF Serve, Stages, Roles
  <2> QED
    BY <2>2, <2>3, <2>4, <2>5 DEF ProgramStep
<1>6. CASE Operator
  <2> PICK p \in Process, sig \in {"HUP", "TERM"} : Deliver(p, sig)
    BY <1>6 DEF Operator
  <2>1. UNCHANGED <<daemon_flg, runner, test>>
    BY <1>6, SignalSteps DEF Operator, harness
  <2> QED
    BY <1>0, <1>6, <2>1, SignalSteps DEF Operator, Becomes, Life, Stages, Roles
<1>7. CASE \E c \in Client : ClientProgram(c)
  BY <1>7, ClientSteps DEF program, Stages, Roles
<1> QED
  BY <1>1, <1>2, <1>3, <1>4, <1>5, <1>6, <1>7 DEF TestNext

\* ok.txt and the verdict are written together, before the runner looks (Judge).
LEMMA VerdictsStep ==
  ASSUME Roles, Verdicts, TestNext
  PROVE  Verdicts'
<1>1. CASE Runner
  BY <1>1 DEF Runner, RunTest, WaitTest, Look, Roles, Verdicts
<1>2. CASE Judge
  <2>1. okfile' <=> result_check
    BY <1>2 DEF Judge
  <2>2. /\ verdict' = IF result_check THEN "ok" ELSE "dame"
        /\ test' = "done" /\ runner' = runner /\ test = "wait"
    BY <1>2 DEF Judge
  <2>3. runner \notin {"OK!!", "DAME......"}
    BY <2>2 DEF Roles
  <2> HIDE DEF result_check
  <2> QED
    BY <2>1, <2>2, <2>3 DEF Verdicts
<1>3. CASE ForkServer \/ HangUpServer
  BY <1>3 DEF ForkServer, HangUpServer, Roles, Verdicts
<1>4. CASE Starter \/ Driver
  BY <1>4 DEF Starter, ForkDriver, ExecServer, Driver, makeclient, WriteTo, HangUpClient,
        WaitClient, Verdicts
<1>5. CASE Program \/ Operator
  BY <1>5 DEF Program, Operator, harness, Verdicts
<1>6. CASE \E c \in Client : ClientProgram(c)
  BY <1>6, ClientSteps DEF Verdicts
<1> QED
  BY <1>1, <1>2, <1>3, <1>4, <1>5, <1>6 DEF TestNext, Parent

\* In a test the first process is the only one.
LEMMA OnlyFirst ==
  ASSUME Stages, ~daemon_flg, NEW p \in Process, life[p] # "none"
  PROVE  p = "first"
  BY DEF Stages, Process

LEMMA HeededStep ==
  ASSUME Stages, Roles, Heeded, TestNext
  PROVE  Heeded'
<1>1. ASSUME UNCHANGED <<daemon_flg, pc, out, life>>
      PROVE  Heeded'
  BY <1>1 DEF Heeded
<1>2. ASSUME NEW p \in Process, NEW sig, Deliver(p, sig)
      PROVE  Heeded'
  <2> SUFFICES ASSUME ~daemon_flg' PROVE Heeded'
    BY DEF Heeded
  <2>1. daemon_flg' = daemon_flg
    BY <1>2, SignalSteps
  <2>2. CASE UNCHANGED <<server, life, out>>
    BY <1>1, <2>1, <2>2 DEF server
  <2>3. CASE /\ life[p] \in {"fork", "exec", "boot", "child", "leader", "detached"}
             /\ Becomes(p, "gone") /\ UNCHANGED <<server, out>>
    <3>1. p = "first"
      BY <2>1, <2>3, OnlyFirst
    <3> QED
      BY <2>1, <2>3, <3>1 DEF Heeded, Becomes, Stages, server
  <2>4. CASE Signal("stop") /\ UNCHANGED <<life, out>>
    BY <1>1, <2>1, <2>4 DEF Signal
  <2>5. ASSUME life[p] \in {"socket", "loop"}, UNCHANGED life, pc # "test"
        PROVE  life["first"] = "loop" /\ Heeded'
    <3>1. p = "first"
      BY <2>1, <2>5, OnlyFirst
    <3> QED
      BY <2>1, <2>5, <3>1 DEF Heeded
  <2>6. CASE life[p] \in {"socket", "loop"} /\ UNCHANGED life /\ SelectInterrupted("stop")
    BY <2>5, <2>6 DEF SelectInterrupted
  <2>7. CASE life[p] \in {"socket", "loop"} /\ UNCHANGED life /\ SendInterrupted("stop")
    BY <2>5, <2>7 DEF SendInterrupted, Sending
  <2> QED
    BY <1>2, <2>2, <2>3, <2>4, <2>6, <2>7, SignalSteps
<1>3. CASE Runner
  BY <1>1, <1>3 DEF Runner, RunTest, WaitTest, Look, vars, server, program
<1>4. CASE Parent
  <2>1. CASE ForkServer
    BY <2>1 DEF ForkServer, Becomes, vars, server, Stages, Roles, Heeded, Process
  <2>2. CASE HangUpServer
    BY <1>2, <2>2 DEF HangUpServer, Process
  <2>3. CASE Judge
    BY <1>1, <2>3 DEF Judge, vars, server, program
  <2> QED
    BY <1>4, <2>1, <2>2, <2>3 DEF Parent
<1>5. CASE Starter
  BY <1>5 DEF Starter, ForkDriver, ExecServer, Becomes, vars, server, Stages, Heeded, Process
<1>6. CASE Driver
  <2>1. ASSUME NEW c, Dies(c) PROVE UNCHANGED server
    BY <2>1 DEF Dies, Leave
  <2> QED
    BY <1>1, <1>6, <2>1 DEF Driver, makeclient, WriteTo, HangUpClient, WaitClient, vars, server,
          program
<1>7. CASE Program
  <2> PICK p \in Process : ProgramStep(p)
    BY <1>7 DEF Program
  <2> SUFFICES ASSUME ~daemon_flg' PROVE Heeded'
    BY DEF Heeded
  <2>1. daemon_flg' = daemon_flg /\ life["child"] = "none" /\ life \in [Process -> Life]
    BY DEF ProgramStep, Stages
  <2>2. CASE p = "first" /\ Detach
    BY <2>1, <2>2 DEF Detach
  <2>3. CASE p = "child" /\ (Setsid \/ DetachAgain)
    BY <2>1, <2>3 DEF Setsid, DetachAgain
  <2>4. CASE UNCHANGED server /\ (set_my_sig_action(p) \/ server_socket(p) \/ Exit(p))
    <3>1. p = "first"
      BY <2>1, <2>4, OnlyFirst DEF set_my_sig_action, server_socket, Exit
    <3>2. CASE set_my_sig_action(p) \/ Exit(p)
      BY <2>1, <2>4, <3>1, <3>2 DEF set_my_sig_action, Exit, Becomes, server, Stages, Heeded
    <3>3. CASE server_socket(p)
      BY <2>1, <2>4, <3>1, <3>3 DEF server_socket, Becomes, server, Heeded, Interrupted
    <3> QED
      BY <2>4, <3>2, <3>3
  <2>5. CASE Serve(p)
    <3>1. p = "first"
      BY <2>1, <2>5, OnlyFirst DEF Serve
    <3> QED
      BY <2>1, <2>5, <3>1 DEF Serve, Heeded
  <2> QED
    BY <2>2, <2>3, <2>4, <2>5 DEF ProgramStep
<1>8. CASE Operator
  BY <1>2, <1>8 DEF Operator
<1>9. CASE \E c \in Client : ClientProgram(c)
  BY <1>1, <1>9, ClientSteps DEF server, program
<1> QED
  BY <1>3, <1>4, <1>5, <1>6, <1>7, <1>8, <1>9 DEF TestNext

----------------------------------------------------------------------------
(* The counts *)

\* The slots in use hold different clients, all of them connected.
LEMMA CountOfPresent ==
  ASSUME SInv, IsFiniteSet(Present)
  PROVE  child_no \in Nat /\ child_no <= Cardinality(Present)
<1> DEFINE f == [i \in Used(child) |-> child[i]]
<1>1. \A i \in Used(child) : child[i] \in open /\ child[i] \in Present
  BY DEF SInv, SlotsMatch, Used, Present, WaitingApart
<1>2. f \in Injection(Used(child), Present)
  BY <1>1 DEF Injection, IsInjective, SInv, SlotsMatch, Used
<1>3. Cardinality(Used(child)) <= Cardinality(Present)
  BY <1>2, FS_Injection
<1>4. Cardinality(Used(child)) \in Nat
  BY UsedFinite, FS_CardinalityType
<1> QED
  BY <1>3, <1>4 DEF SInv, SlotsMatch, Used

LEMMA CardinalityGrows ==
  ASSUME IsFiniteSet(Present), Present' = Present \/ \E c \in Client : Present' = Present \cup {c}
  PROVE  /\ IsFiniteSet(Present') /\ Cardinality(Present) \in Nat /\ Cardinality(Present') \in Nat
         /\ Cardinality(Present) <= Cardinality(Present')
<1>1. Cardinality(Present) \in Nat
  BY FS_CardinalityType
<1>2. ASSUME NEW c \in Client, Present' = Present \cup {c}
      PROVE  /\ IsFiniteSet(Present')
             /\ Cardinality(Present') = Cardinality(Present)
                  \/ Cardinality(Present') = Cardinality(Present) + 1
  BY <1>2, FS_AddElement
<1> QED
  BY <1>1, <1>2

\* A step writes the count there is, or none.
LEMMA CountsWritten ==
  ASSUME TestNext
  PROVE  counts' = counts \/ counts' = counts \cup {child_no}
<1>1. CASE Runner \/ Starter
  BY <1>1 DEF Runner, RunTest, WaitTest, Look, Starter, ForkDriver, ExecServer, program
<1>2. CASE Parent \/ Operator
  BY <1>2, SignalSteps DEF Parent, ForkServer, HangUpServer, Judge, Operator, program, Process
<1>3. CASE Driver
  BY <1>3 DEF Driver, makeclient, WriteTo, HangUpClient, WaitClient, program
<1>4. CASE Program
  <2> PICK p \in Process : ProgramStep(p)
    BY <1>4 DEF Program
  <2> QED
    BY DEF ProgramStep, Detach, Setsid, DetachAgain, set_my_sig_action, server_socket, Exit, Serve
<1>5. CASE \E c \in Client : ClientProgram(c)
  BY <1>5, ClientSteps DEF program
<1> QED
  BY <1>1, <1>2, <1>3, <1>4, <1>5 DEF TestNext

LEMMA CountedStep ==
  ASSUME SInv, Counted, TestNext
  PROVE  Counted'
<1>1. /\ IsFiniteSet(Present') /\ Cardinality(Present) \in Nat /\ Cardinality(Present') \in Nat
      /\ Cardinality(Present) <= Cardinality(Present')
  BY StepsOfServer, PresentGrows, CardinalityGrows DEF Counted
<1>2. child_no \in Nat /\ child_no <= Cardinality(Present)
  BY CountOfPresent DEF Counted
<1>3. \A n \in counts' : n \in counts \/ n = child_no
  BY CountsWritten
<1>4. \A n \in counts' : n \in Nat /\ n <= Cardinality(Present)
  BY <1>2, <1>3 DEF Counted
<1>5. \A n \in counts' : n \in Nat /\ n <= Cardinality(Present')
  BY <1>1, <1>4
<1> QED
  BY <1>1, <1>5 DEF Counted

----------------------------------------------------------------------------
(* The verdict *)

LEMMA LeastOfTwo == ASSUME size \in Nat PROVE Min({size, 2}) \in Nat
<1>1. {size, 2} \in SUBSET Nat /\ {size, 2} # {}
  OBVIOUS
<1>2. Min({size, 2}) \in {size, 2}
  BY <1>1, FirstSlot
<1> QED
  BY <1>1, <1>2

\* The check looks for what only such a server and such clients have left.
LEMMA CheckIsFair ==
  ASSUME Heeded, Counted, ~daemon_flg, life["first"] = "gone", size \in Nat, result_check
  PROVE  pc = "ended" /\ Cardinality(Present) >= Min({size, 2})
<1>1. pc = "ended"
  BY DEF Heeded, result_check, Interrupted
<1>2. Min({size, 2}) \in 0..Min({size, 2})
  BY LeastOfTwo
<1>3. Min({size, 2}) \in counts
  BY <1>2 DEF result_check
<1>4. Min({size, 2}) <= Cardinality(Present)
  BY <1>3 DEF Counted
<1>5. Cardinality(Present) \in Nat
  BY FS_CardinalityType DEF Counted
<1> QED
  BY <1>1, <1>4, <1>5, LeastOfTwo

LEMMA ServedStep ==
  ASSUME SInv, Roles, Heeded, Counted, OkMeansServed, size \in Nat, TestNext
  PROVE  OkMeansServed'
<1>1. /\ IsFiniteSet(Present') /\ Cardinality(Present) \in Nat /\ Cardinality(Present') \in Nat
      /\ Cardinality(Present) <= Cardinality(Present')
  BY StepsOfServer, PresentGrows, CardinalityGrows DEF Counted
<1>2. size' = size /\ Min({size, 2}) \in Nat
  BY LeastOfTwo DEF TestNext
<1>3. CASE pc = "ended" /\ Cardinality(Present) >= Min({size, 2})
  <2>1. pc' = "ended"
    BY <1>3, StepsOfServer, EndedStays
  <2>2. Cardinality(Present') >= Min({size, 2})
    BY <1>1, <1>2, <1>3
  <2> QED
    BY <1>2, <2>1, <2>2 DEF OkMeansServed, Present
<1>4. CASE verdict' # "ok"
  BY <1>4 DEF OkMeansServed
<1>5. CASE Judge /\ verdict' = "ok"
  <2>1. result_check /\ life["first"] = "gone" /\ ~daemon_flg
    BY <1>5 DEF Judge, Roles
  <2> QED
    BY <1>3, <2>1, CheckIsFair
<1>6. ASSUME ~Judge PROVE verdict' = verdict
  <2>1. CASE \E c \in Client : ClientProgram(c)
    BY <2>1, ClientSteps
  <2> QED
    BY <1>6, <2>1 DEF TestNext, Runner, RunTest, WaitTest, Look, Parent, ForkServer, HangUpServer,
       Starter, ForkDriver, ExecServer, Driver, makeclient, WriteTo, HangUpClient, WaitClient,
       Program, Operator, harness
<1> QED
  BY <1>3, <1>4, <1>5, <1>6 DEF OkMeansServed, Present

----------------------------------------------------------------------------
(* The theorems *)

SizeNat == size \in Nat

LEMMA TestInvInit == TestInit => TestInv /\ SizeNat
<1> SUFFICES ASSUME TestInit PROVE TestInv /\ SizeNat
  OBVIOUS
<1>1. SInv
  BY SInvInit DEF TestInit, ProgramInit
<1>2. SizeNat
  BY TestAssumption DEF TestInit, SizeNat
<1>3. Stages /\ Roles
  BY DEF TestInit, ProgramInit, Stages, Roles, Process, Life
<1>4. Verdicts /\ Heeded /\ OkMeansServed
  BY DEF TestInit, ProgramInit, Init, Verdicts, Heeded, OkMeansServed
<1>5. Present = {} /\ counts = {}
  BY DEF TestInit, ProgramInit, Init, Present
<1>6. Counted
  BY <1>5, FS_EmptySet DEF Counted
<1> QED
  BY <1>1, <1>2, <1>3, <1>4, <1>6 DEF TestInv

LEMMA TestInvStep == TestInv /\ SizeNat /\ [TestNext]_testvars => TestInv' /\ SizeNat'
<1> SUFFICES ASSUME TestInv, SizeNat, [TestNext]_testvars PROVE TestInv' /\ SizeNat'
  OBVIOUS
<1>1. CASE TestNext
  <2>1. SInv'
    BY <1>1, StepsOfServer, SInvKept DEF TestInv
  <2>2. SizeNat'
    BY <1>1 DEF TestNext, SizeNat
  <2> QED
    BY <1>1, <2>1, <2>2, StagesStep, VerdictsStep, HeededStep, CountedStep, ServedStep
       DEF TestInv, SizeNat
<1>2. CASE UNCHANGED testvars
  <2>1. SInv'
    BY <1>2, SInvStep DEF testvars, TestInv
  <2> QED
    BY <1>2, <2>1 DEF testvars, vars, server, clients, program, harness, TestInv, Stages, Roles,
       Verdicts, Heeded, Counted, Present, OkMeansServed, SizeNat
<1> QED
  BY <1>1, <1>2

LEMMA TestInvAlways == TestSpec => []TestInv
  BY TestInvInit, TestInvStep, PTL DEF TestSpec

\* What the runner prints is what this run's check found (TEST/main.c 116-118),
\* whatever fails and whichever file an earlier run has left.
THEOREM RunnerPrintsVerdict == TestSpec => []PrintedAsJudged
<1>1. TestInv => PrintedAsJudged
  BY DEF TestInv, Verdicts, PrintedAsJudged
<1> QED
  BY <1>1, TestInvAlways, PTL

\* A test that says ok had a server that left accept_loop because of its signal,
\* and as many clients as it looks for, however the sleeps of its processes end.
THEOREM OkIsEarned == TestSpec => []OkMeansServed
<1>1. TestInv => OkMeansServed
  BY DEF TestInv
<1> QED
  BY <1>1, TestInvAlways, PTL

\* Of the processes of daemonize (daemon.c) one at most goes on to serve, also
\* when a fork fails or a signal comes between two of its steps.
THEOREM OneOfStart == TestSpec => []OneServer
<1>1. ASSUME TestInv PROVE OneServer
  <2> DEFINE S == {p \in Process : life[p] \in {"boot", "detached", "socket", "loop"}}
  <2>1. \E p \in Process : S \subseteq {p}
    BY <1>1 DEF TestInv, Stages, Process
  <2>2. ASSUME NEW p, S \subseteq {p}
        PROVE  Cardinality(S) <= 1
    <3>1. IsFiniteSet({p}) /\ Cardinality({p}) = 1
      BY FS_Singleton
    <3> HIDE DEF S
    <3> QED
      BY <2>2, <3>1, FS_Subset
  <2> QED
    BY <2>1, <2>2 DEF OneServer
<1> QED
  BY <1>1, TestInvAlways, PTL
==============================================================================
