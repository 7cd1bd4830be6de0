----------------------------- MODULE ChatServer -----------------------------
(***************************************************************************)
(* chatserver/server.c: one process that accepts connections, reads what a *)
(* client has sent, echoes it and sends it to every other client.  Its     *)
(* steps are its system calls; clients, which have a connection each, act  *)
(* between any two of them, and signals arrive at any moment.              *)
(*                                                                         *)
(* What travels is counted in units: texts, or NUL bytes, which end the    *)
(* string that is relayed.  A recv is shorter than the 512-byte buffer.    *)
(***************************************************************************)
EXTENDS SequencesExt

CONSTANTS
    Client,         \* one connection each
    NoClient,       \* -1 in an unused slot
    MAX_CHILD,      \* slots
    BufMax,         \* units a connection buffers in each direction
    MaxSent,        \* MaxSent[c]: how many units client c sends
    Nuls,           \* the numbers of those that are NUL bytes
    Signals,        \* signals that arrive: "stop" is SIGTERM or SIGHUP,
                    \* "other" is SIGINT or SIGALRM
    MayLeave,       \* clients that may leave
    Platforms,      \* whether an accepted socket is non-blocking, like the one
                    \* it comes from (BSD, Cygwin), or blocking (Linux)
    MayAbort,       \* a connection whose client leaves early is not accepted
    FdLimit         \* connections the process may have open

ASSUME ServerAssumption ==
    /\ NoClient \notin Client
    /\ MAX_CHILD \in Nat \ {0} /\ BufMax \in Nat \ {0} /\ MaxSent \in [Client -> Nat]
    /\ FdLimit \in Nat \ {0}
    /\ Nuls \subseteq Nat /\ Signals \subseteq {"stop", "other"}
    /\ MayLeave \subseteq Client
    /\ Platforms \subseteq BOOLEAN /\ MayAbort \in BOOLEAN

Slot == 0..(MAX_CHILD - 1)
Unit == [by : Client, no : Nat \ {0}]

VARIABLES
    \* the server: accept_loop and send_recv_loop
    pc, child, child_no, mask, pos, to, buf, rest, errno, g_got,
    \* the connections, and the clients at their other ends
    backlog, open, state, tosrv, tocl, sent, got,
    nonblocking     \* the accepted sockets are, O_NONBLOCK was inherited

server == <<pc, child, child_no, mask, pos, to, buf, rest, errno, g_got>>
clients == <<backlog, open, state, tosrv, tocl, sent, got>>
vars == <<server, clients, nonblocking>>

Listen == NoClient      \* in mask, the listening socket

TypeOK ==
    /\ pc \in {"test", "select", "accept", "serve", "echo", "cast", "ended"}
    /\ child \in [Slot -> Client \cup {NoClient}]
    /\ child_no \in 0..MAX_CHILD
    /\ mask \subseteq Client \cup {Listen}
    /\ pos \in 0..MAX_CHILD /\ to \in 0..MAX_CHILD
    /\ buf \in Seq(Unit) /\ Len(buf) <= BufMax
    /\ rest \in Seq(Unit) /\ IsSuffix(rest, buf)
    /\ errno \in {"EAGAIN", "other"}
    /\ g_got \subseteq {"stop", "other"}
    /\ nonblocking \in BOOLEAN
    /\ \A i, j \in DOMAIN backlog : i # j => backlog[i] # backlog[j]
    /\ open \subseteq Client /\ Cardinality(open) <= FdLimit
    /\ state \in [Client -> {"out", "up", "shut", "reset"}]
    /\ \A c \in Client : /\ tosrv[c] \in Seq(Unit) /\ Len(tosrv[c]) <= BufMax
                         /\ tocl[c] \in Seq(Unit) /\ Len(tocl[c]) <= BufMax
                         /\ got[c] \in Seq(Unit)
    /\ \A c \in Client : sent[c] \in 0..MaxSent[c]

Init ==
    /\ pc = "test"
    /\ child = [i \in Slot |-> NoClient] /\ child_no = 0
    /\ mask = {} /\ pos = 0 /\ to = 0
    /\ buf = <<>> /\ rest = <<>>
    /\ errno = "other" /\ g_got = {} /\ nonblocking \in Platforms
    /\ backlog = <<>> /\ open = {}
    /\ state = [c \in Client |-> "out"]
    /\ tosrv = [c \in Client |-> <<>>] /\ tocl = [c \in Client |-> <<>>]
    /\ sent = [c \in Client |-> 0] /\ got = [c \in Client |-> <<>>]

Gone(c) == state[c] \in {"shut", "reset"}

----------------------------------------------------------------------------
(* accept_loop *)

\* The loop's condition; the mask and the count line are made of child.
Test ==
    /\ pc = "test"
    /\ pc' = IF "stop" \in g_got THEN "ended" ELSE "select"
    /\ UNCHANGED <<child, child_no, mask, pos, to, buf, rest, errno, g_got, clients>>

\* Faulty variant: the listening socket is not watched when one more would fill
\* the slots.
ReadableUnlessFull ==
    {c \in open : tosrv[c] # <<>> \/ Gone(c)}
        \cup (IF backlog # <<>> /\ child_no + 1 < MAX_CHILD THEN {Listen} ELSE {})

\* What select watches: the listening socket and every connection in a slot.
Readable ==
    {c \in open : tosrv[c] # <<>> \/ Gone(c)}
        \cup (IF backlog # <<>> THEN {Listen} ELSE {})

\* Faulty variant: no timeout.
SelectForever ==
    /\ pc = "select" /\ Readable # {}
    /\ mask' = Readable
    /\ pc' = "accept"
    /\ UNCHANGED <<child, child_no, pos, to, buf, rest, errno, g_got, clients>>

\* select returns what is readable, or nothing after its one second.
Select ==
    /\ pc = "select"
    /\ mask' = Readable
    /\ pc' = IF Readable = {} THEN "test" ELSE "accept"
    /\ UNCHANGED <<child, child_no, pos, to, buf, rest, errno, g_got, clients>>

ToServe == pc' = "serve" /\ pos' = 0
FreeSlots == {i \in Slot : child[i] = NoClient}

\* A connection is accepted into the first free slot.
Accept ==
    /\ pc = "accept" /\ Listen \in mask /\ backlog # <<>>
    /\ Cardinality(open) < FdLimit
    /\ FreeSlots # {}
    /\ backlog' = Tail(backlog)
    /\ open' = open \cup {Head(backlog)}
    /\ child' = [child EXCEPT ![Min(FreeSlots)] = Head(backlog)]
    /\ child_no' = child_no + 1
    /\ ToServe
    /\ UNCHANGED <<mask, to, buf, rest, errno, g_got, state, tosrv, tocl, sent, got>>

\* Faulty variant: the refused connection is counted.
AcceptFullCounted ==
    /\ pc = "accept" /\ Listen \in mask /\ backlog # <<>>
    /\ Cardinality(open) < FdLimit
    /\ FreeSlots = {}
    /\ backlog' = Tail(backlog)
    /\ child_no' = child_no + 1
    /\ ToServe
    /\ UNCHANGED <<child, mask, to, buf, rest, errno, g_got,
                   open, state, tosrv, tocl, sent, got>>

\* No slot: the connection is accepted and closed.
AcceptFull ==
    /\ pc = "accept" /\ Listen \in mask /\ backlog # <<>>
    /\ Cardinality(open) < FdLimit
    /\ FreeSlots = {}
    /\ backlog' = Tail(backlog)
    /\ ToServe
    /\ UNCHANGED <<child, child_no, mask, to, buf, rest, errno, g_got,
                   open, state, tosrv, tocl, sent, got>>

\* accept fails: EAGAIN when the client has left meanwhile, EMFILE when the
\* process has no descriptor left.  The loop goes on.
AcceptFails ==
    /\ pc = "accept" /\ Listen \in mask
    /\ backlog = <<>> \/ Cardinality(open) >= FdLimit
    /\ errno' = IF backlog = <<>> THEN "EAGAIN" ELSE "other"
    /\ ToServe
    /\ UNCHANGED <<child, child_no, mask, to, buf, rest, g_got, clients>>

AcceptNone ==
    /\ pc = "accept" /\ Listen \notin mask
    /\ ToServe
    /\ UNCHANGED <<child, child_no, mask, to, buf, rest, errno, g_got, clients>>

\* The slots still to be served: in use and readable when select returned.
ToBeServed == {i \in Slot : i >= pos /\ child[i] # NoClient /\ child[i] \in mask}
ServeDone ==
    /\ pc = "serve" /\ ToBeServed = {}
    /\ pc' = "test"
    /\ UNCHANGED <<child, child_no, mask, pos, to, buf, rest, errno, g_got, clients>>

\* Faulty variant: the slot keeps the closed descriptor.
DropKeeping(i) ==
    /\ open' = open \ {child[i]}
    /\ child_no' = child_no - 1
    /\ pc' = "test"
    /\ UNCHANGED <<child, mask, to, buf, rest, backlog, tocl, sent, got>>

\* send_recv_loop returned -1: the connection is closed, its slot freed, and
\* the other readable ones wait for the next round.
Drop(i) ==
    /\ open' = open \ {child[i]}
    /\ child' = [child EXCEPT ![i] = NoClient]
    /\ child_no' = child_no - 1
    /\ pc' = "test"
    /\ UNCHANGED <<mask, to, buf, rest, backlog, tocl, sent, got>>

----------------------------------------------------------------------------
(* send_recv_loop: recv *)

\* What strcat copies: the units before the first NUL.
Text(s) ==
    LET nuls == {k \in DOMAIN s : s[k].no \in Nuls}
    IN  IF nuls = {} THEN s ELSE SubSeq(s, 1, Min(nuls) - 1)

\* The units read from slot i are about to be echoed.
Relay(i, s) ==
    /\ pos' = i /\ to' = i
    /\ buf' = s /\ rest' = s
    /\ pc' = "echo"
    /\ UNCHANGED <<child, child_no, mask, backlog, open, tocl, sent, got>>

\* Faulty variant: flg | MSG_PEEK.
RecvPeek ==
    /\ pc = "serve" /\ ToBeServed # {}
    /\ LET i == Min(ToBeServed)
       IN  tosrv[child[i]] # <<>> /\ Relay(i, Text(tosrv[child[i]]))
    /\ UNCHANGED <<errno, g_got, state, tosrv>>

Recv ==
    /\ pc = "serve" /\ ToBeServed # {}
    /\ LET i == Min(ToBeServed)
       IN  /\ tosrv[child[i]] # <<>>
           /\ Relay(i, Text(tosrv[child[i]]))
           /\ tosrv' = [tosrv EXCEPT ![child[i]] = <<>>]
    /\ UNCHANGED <<errno, g_got, state>>

\* Faulty variant: an end of file is taken for an empty read.
RecvEOFIgnored ==
    /\ pc = "serve" /\ ToBeServed # {}
    /\ LET i == Min(ToBeServed)
       IN  tosrv[child[i]] = <<>> /\ Gone(child[i]) /\ Relay(i, <<>>)
    /\ UNCHANGED <<errno, g_got, state, tosrv>>

\* recv returned 0.  errno is what the last failing call left: when that is
\* EAGAIN the end of file is not seen and an empty text is relayed.
RecvEOF ==
    /\ pc = "serve" /\ ToBeServed # {}
    /\ LET i == Min(ToBeServed)
       IN  /\ tosrv[child[i]] = <<>> /\ Gone(child[i])
           /\ \/ errno = "EAGAIN" /\ Relay(i, <<>>)
              \/ errno # "EAGAIN" /\ Drop(i) /\ UNCHANGED pos
    /\ UNCHANGED <<errno, g_got, state, tosrv>>

\* recv returned -1: the connection was reset.
RecvError ==
    /\ pc = "serve" /\ ToBeServed # {}
    /\ LET i == Min(ToBeServed) IN state[child[i]] = "reset" /\ Drop(i)
    /\ errno' = "other"
    /\ UNCHANGED <<pos, g_got, state, tosrv>>

----------------------------------------------------------------------------
(* send_recv_loop: the echo and the sends to the others *)

Sending == pc \in {"echo", "cast"}
Peer == child[to]

\* Faulty variant: the sender is told by the count, not by its slot.
NextSendByCount ==
    LET others == {j \in Slot : /\ child[j] # NoClient /\ j # child_no
                                /\ pc = "cast" => j > to}
    IN  /\ UNCHANGED <<child, child_no, mask, buf, backlog, open, sent, got, tosrv>>
        /\ \/ /\ others # {}
              /\ pc' = "cast" /\ to' = Min(others) /\ rest' = buf
              /\ UNCHANGED pos
           \/ /\ others = {}
              /\ pc' = "serve" /\ pos' = pos + 1 /\ rest' = <<>>
              /\ UNCHANGED to

\* The next send, after the one to slot to: first the echo, then the other
\* slots in use in their order; then the next slot is served.
NextSend ==
    LET others == {j \in Slot : /\ child[j] # NoClient /\ j # pos
                                /\ pc = "cast" => j > to}
    IN  /\ UNCHANGED <<child, child_no, mask, buf, backlog, open, sent, got, tosrv>>
        /\ \/ /\ others # {}
              /\ pc' = "cast" /\ to' = Min(others) /\ rest' = buf
              /\ UNCHANGED pos
           \/ /\ others = {}
              /\ pc' = "serve" /\ pos' = pos + 1 /\ rest' = <<>>
              /\ UNCHANGED to

\* send returned -1, not EAGAIN: the echo ends the connection it was read
\* from, and nobody else gets the text; a send to another goes to the next.
SendError ==
    \/ pc = "echo" /\ Drop(pos) /\ UNCHANGED <<pos, tosrv>>
    \/ pc = "cast" /\ NextSend

Room(c) == Len(tocl[c]) < BufMax

\* A send puts its units in the connection's buffer one by one,
SendUnit ==
    /\ Sending /\ rest # <<>>
    /\ state[Peer] = "up" /\ Room(Peer)
    /\ tocl' = [tocl EXCEPT ![Peer] = Append(@, Head(rest))]
    /\ rest' = Tail(rest)
    /\ UNCHANGED <<pc, child, child_no, mask, pos, to, buf, errno, g_got,
                   backlog, open, state, tosrv, sent, got>>

\* and returns when it has put them all.
SendDone ==
    /\ Sending /\ rest = <<>>
    /\ NextSend
    /\ UNCHANGED <<errno, g_got, state, tocl>>

\* Faulty variant: EAGAIN is an error like the others.
SendFullError ==
    /\ Sending /\ rest # <<>> /\ nonblocking
    /\ state[Peer] = "up" /\ ~Room(Peer)
    /\ \/ rest = buf /\ errno' = "EAGAIN" /\ SendError
       \/ rest # buf /\ NextSend /\ UNCHANGED errno
    /\ UNCHANGED <<g_got, state, tocl>>

\* A full buffer, non-blocking: -1 and EAGAIN if nothing was put, else a
\* shorter count.  Neither is looked at: the units that are left are lost.
SendFull ==
    /\ Sending /\ rest # <<>> /\ nonblocking
    /\ state[Peer] = "up" /\ ~Room(Peer)
    /\ errno' = IF rest = buf THEN "EAGAIN" ELSE errno
    /\ NextSend
    /\ UNCHANGED <<g_got, state, tocl>>

\* To a client that has left: at first it seems to work, and resets the
\* connection; a send that has put something when that comes returns its count;
SendGone ==
    /\ Sending /\ rest # <<>>
    /\ \/ state[Peer] = "shut" /\ state' \in {state, [state EXCEPT ![Peer] = "reset"]}
       \/ state[Peer] = "reset" /\ rest # buf /\ UNCHANGED state
    /\ NextSend
    /\ UNCHANGED <<errno, g_got, tocl>>

\* the next one fails with EPIPE (and SIGPIPE, whose flag nobody reads).
SendFails ==
    /\ Sending /\ rest = buf /\ state[Peer] = "reset"
    /\ errno' = "other"
    /\ SendError
    /\ UNCHANGED <<g_got, state, tocl>>

----------------------------------------------------------------------------
(* Signals: the handlers only set a flag, and no call is restarted.  A signal
   of each kind arrives at most once. *)

Flag(s) == s \in Signals \ g_got /\ g_got' = g_got \cup {s}

\* A signal that finds the server in its code, or about to enter a call.
Signal(s) ==
    /\ Flag(s) /\ pc # "ended"
    /\ UNCHANGED <<pc, child, child_no, mask, pos, to, buf, rest, errno, clients>>

\* One that finds it waiting in select, which fails,
SelectInterrupted(s) ==
    /\ Flag(s) /\ pc = "select" /\ Readable = {}
    /\ errno' = "other"
    /\ pc' = "test"
    /\ UNCHANGED <<child, child_no, mask, pos, to, buf, rest, clients>>

\* or in a blocked send, which fails with EINTR if it has put nothing; if it has
\* put some units it returns their count, and the rest is lost.
SendInterrupted(s) ==
    /\ Flag(s) /\ Sending /\ rest # <<>> /\ ~nonblocking
    /\ state[Peer] = "up" /\ ~Room(Peer)
    /\ \/ rest = buf /\ errno' = "other" /\ SendError
       \/ rest # buf /\ NextSend /\ UNCHANGED errno
    /\ UNCHANGED <<state, tocl>>

----------------------------------------------------------------------------
(* The clients *)

Connected(c) == c \in open \/ Contains(backlog, c)

Connect(c) ==
    /\ state[c] = "out"
    /\ state' = [state EXCEPT ![c] = "up"]
    /\ backlog' = Append(backlog, c)
    /\ UNCHANGED <<server, open, tosrv, tocl, sent, got>>

ClientSend(c) ==
    /\ state[c] = "up" /\ Connected(c)
    /\ sent[c] < MaxSent[c] /\ Len(tosrv[c]) < BufMax
    /\ sent' = [sent EXCEPT ![c] = @ + 1]
    /\ tosrv' = [tosrv EXCEPT ![c] = Append(@, [by |-> c, no |-> sent[c] + 1])]
    /\ UNCHANGED <<server, backlog, open, state, tocl, got>>

ClientRead(c) ==
    /\ state[c] = "up" /\ tocl[c] # <<>>
    /\ got' = [got EXCEPT ![c] = Append(@, Head(tocl[c]))]
    /\ tocl' = [tocl EXCEPT ![c] = Tail(@)]
    /\ UNCHANGED <<server, backlog, open, state, tosrv, sent>>

\* A client ends: the connection is shut, or reset when it left data unread.
Leave(c) ==
    /\ c \in MayLeave /\ state[c] = "up"
    /\ state' = [state EXCEPT ![c] = IF tocl[c] = <<>> THEN "shut" ELSE "reset"]
    /\ tocl' = [tocl EXCEPT ![c] = <<>>]
    /\ backlog' = IF MayAbort THEN RemoveFirst(backlog, c) ELSE backlog
    /\ UNCHANGED <<server, open, tosrv, sent, got>>

----------------------------------------------------------------------------
LoopStep == Test \/ Select \/ Accept \/ AcceptFull \/ AcceptFails \/ AcceptNone \/ ServeDone
RecvStep == Recv \/ RecvEOF \/ RecvError
SendStep == SendUnit \/ SendDone \/ SendFull \/ SendGone \/ SendFails
ServerStep == LoopStep \/ RecvStep \/ SendStep
SignalStep == \E s \in Signals : Signal(s) \/ SelectInterrupted(s) \/ SendInterrupted(s)
ClientStep(c) == Connect(c) \/ ClientSend(c) \/ ClientRead(c) \/ Leave(c)

Next ==
    /\ UNCHANGED nonblocking
    /\ ServerStep \/ SignalStep \/ \E c \in Client : ClientStep(c)

Spec == Init /\ [][Next]_vars

\* The server runs on unless a call blocks; clients read what is sent to them
\* (the loop of chatclient/main.c).  Nothing else is sure to happen.
FairSpec ==
    /\ Spec
    /\ WF_vars(UNCHANGED nonblocking /\ ServerStep)
    /\ \A c \in Client : WF_vars(UNCHANGED nonblocking /\ ClientRead(c))

----------------------------------------------------------------------------
(* Properties *)

\* child_no counts the slots in use, every connection the server has open is in
\* exactly one slot, and no slot holds a closed one: whatever fails in between.
SlotsMatch ==
    LET used == {i \in Slot : child[i] # NoClient}
    IN  /\ child_no = Cardinality(used)
        /\ open = {child[i] : i \in used}
        /\ \A i, j \in used : i # j => child[i] # child[j]

\* What client c has received or is about to.
Received(c) == got[c] \o tocl[c]

\* Two clients that both receive two units receive them in the same order, even
\* when slow readers make the server lose units and clients come and go.
SameOrder ==
    \A c, d \in Client :
        LET in(x, u) == {k \in DOMAIN Received(x) : Received(x)[k] = u}
        IN  \A i, j \in DOMAIN Received(c) : i < j =>
                \A k \in in(d, Received(c)[i]), l \in in(d, Received(c)[j]) : k < l

\* A connection is only closed by the server when its client has gone: a slow
\* reader, a full buffer or another's failure does not cost it (no EINTR).
KeptWhileUp ==
    [][\A c \in open : state[c] = "up" => c \in open']_vars

\* The slot of a client that has left is freed, whatever the others do
\* (blocking sockets, readers that read).
LeftFreed ==
    \A c \in Client : c \in open /\ Gone(c) ~> c \notin open \/ pc = "ended"

\* A SIGTERM or SIGHUP ends the loop, wherever it finds the server.
StopEnds == "stop" \in g_got ~> pc = "ended"

\* A waiting connection is accepted or refused although others keep the server
\* busy, once the process has descriptors to spare for good.
WaitingAnswered ==
    <>[](Cardinality(open) < FdLimit) =>
        \A c \in Client : Contains(backlog, c) ~> ~Contains(backlog, c) \/ pc = "ended"
============================================================================
