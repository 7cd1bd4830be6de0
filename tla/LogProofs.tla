----------------------------- MODULE LogProofs ------------------------------
(***************************************************************************)
(* Proofs about Log, for any number of processes, runs of initlog,         *)
(* messages and places on the queue.                                       *)
(***************************************************************************)
EXTENDS Log, TLAPS, FiniteSetTheorems, SequenceTheorems

Distinct(s) == \A i, j \in DOMAIN s : i # j => s[i] # s[j]

LEMMA AppendedOnce ==
  ASSUME NEW S, NEW s \in Seq(S), NEW e \in S
  PROVE  /\ Append(s, e) \in Seq(S)
         /\ Len(Append(s, e)) = Len(s) + 1
         /\ Elements(Append(s, e)) = Elements(s) \cup {e}
         /\ Distinct(s) /\ e \notin Elements(s) => Distinct(Append(s, e))
<1>1. /\ Append(s, e) \in Seq(S) /\ Len(Append(s, e)) = Len(s) + 1
      /\ \A i \in 1..Len(s) : Append(s, e)[i] = s[i]
      /\ Append(s, e)[Len(s) + 1] = e
  BY AppendProperties
<1>2. /\ Len(s) \in Nat /\ DOMAIN s = 1..Len(s)
      /\ DOMAIN Append(s, e) = 1..(Len(s) + 1)
  BY <1>1, LenProperties
<1> QED
  BY <1>1, <1>2 DEF Elements, Distinct

LEMMA TakenOnce ==
  ASSUME NEW S, NEW s \in Seq(S), s # <<>>
  PROVE  /\ Tail(s) \in Seq(S) /\ Head(s) \in S
         /\ Len(Tail(s)) = Len(s) - 1
         /\ Elements(s) = Elements(Tail(s)) \cup {Head(s)}
         /\ Distinct(s) => Distinct(Tail(s)) /\ Head(s) \notin Elements(Tail(s))
<1>1. /\ Tail(s) \in Seq(S) /\ Head(s) \in S /\ Len(Tail(s)) = Len(s) - 1
      /\ \A i \in 1..Len(Tail(s)) : Tail(s)[i] = s[i + 1]
      /\ Head(s) = s[1]
  BY HeadTailProperties
<1>2. /\ Len(s) \in Nat \ {0} /\ DOMAIN s = 1..Len(s)
      /\ DOMAIN Tail(s) = 1..(Len(s) - 1)
  BY <1>1, LenProperties, EmptySeq
<1>3. \A i \in DOMAIN s : i = 1 \/ (i - 1 \in DOMAIN Tail(s) /\ Tail(s)[i - 1] = s[i])
  BY <1>1, <1>2
<1>4. \A i \in DOMAIN Tail(s) : i + 1 \in DOMAIN s /\ Tail(s)[i] = s[i + 1] /\ i + 1 # 1
  BY <1>1, <1>2
<1>5. Elements(s) = Elements(Tail(s)) \cup {Head(s)}
  <2>1. ASSUME NEW e \in Elements(s) PROVE e \in Elements(Tail(s)) \cup {Head(s)}
    <3> PICK i \in DOMAIN s : e = s[i]
      BY DEF Elements
    <3>1. CASE i = 1
      BY <1>1, <3>1
    <3>2. CASE i - 1 \in DOMAIN Tail(s) /\ Tail(s)[i - 1] = s[i]
      BY <3>2 DEF Elements
    <3> QED
      BY <1>3, <3>1, <3>2
  <2>2. \A e \in Elements(Tail(s)) : e \in Elements(s)
    BY <1>4 DEF Elements
  <2>3. Head(s) \in Elements(s)
    BY <1>1, <1>2 DEF Elements
  <2> QED
    BY <2>1, <2>2, <2>3
<1>6. ASSUME Distinct(s) PROVE Distinct(Tail(s)) /\ Head(s) \notin Elements(Tail(s))
  <2>1. \A i, j \in DOMAIN Tail(s) : i # j => i + 1 # j + 1
    BY <1>2
  <2>2. Distinct(Tail(s))
    BY <1>4, <1>6, <2>1 DEF Distinct
  <2>3. \A i \in DOMAIN Tail(s) : Tail(s)[i] # s[1]
    <3> TAKE i \in DOMAIN Tail(s)
    <3>1. i + 1 \in DOMAIN s /\ 1 \in DOMAIN s /\ i + 1 # 1 /\ Tail(s)[i] = s[i + 1]
      BY <1>2, <1>4
    <3> QED
      BY <1>6, <3>1 DEF Distinct
  <2> QED
    BY <1>1, <2>2, <2>3 DEF Elements
<1> QED
  BY <1>1, <1>5, <1>6

LEMMA ElementsOf ==
  ASSUME NEW S, NEW s \in Seq(S)
  PROVE  Elements(s) \subseteq S
  BY LenProperties, ElementOfSeq DEF Elements

----------------------------------------------------------------------------
(* Types *)

Logging == {"idle", "send", "take_direct", "write_direct"}
Holding == {"send", "take", "write", "take_direct", "write_direct"}

\* A buffer holds a message while its process is on the way with one; a process
\* that may log has a logger.
Buffers ==
    /\ \A p \in Process : IF pc[p] \in Holding THEN hand[p] \in Message ELSE hand[p] = NoMessage
    /\ \A m \in Main : pc[m] \in Logging => log_pid[m] \in Logger

Types ==
    /\ TypeOK
    /\ file \in [Sender -> Seq(Message)]
    /\ Buffers

LEMMA TypesInit == Init => Types
<1> SUFFICES ASSUME Init PROVE Types
  OBVIOUS
<1>1. <<>> \in Seq(Message) /\ Len(<<>>) = 0
  BY EmptySeq
<1>2. queue \in Seq(Message) /\ Len(queue) <= QueueMax
  BY <1>1, ProcessAssumption DEF Init
<1>3. sent \in [Sender -> 0..MaxSent] /\ file \in [Sender -> Seq(Message)]
  BY <1>1, ProcessAssumption DEF Init
<1>4. TypeOK
  BY <1>2, <1>3 DEF Init, TypeOK, PC
<1> QED
  BY <1>3, <1>4 DEF Init, Types, Buffers, Holding, Logging, Process

LEMMA TypesInitlog ==
  ASSUME Types, NEW m \in Main, InitStep(m)
  PROVE  Types'
<1> USE ProcessAssumption DEF Types, TypeOK, Buffers, Holding, Logging, Process, PC, InLoop
<1>1. CASE OpenQueue(m)
  BY <1>1 DEF OpenQueue, Goto
<1>2. CASE ForkLogger(m)
  <2> PICK l \in Logger :
        /\ pc' = [pc EXCEPT ![m] = "idle", ![l] = "recv"]
        /\ log_pid' = [log_pid EXCEPT ![m] = l]
        /\ children' = [children EXCEPT ![m] = @ \cup {l}]
        /\ pc[l] = "none"
    BY <1>2 DEF ForkLogger
  <2>1. pc[m] = "forking" /\ UNCHANGED <<queue, exists, mutex, hand, hup, sent, file, accepted>>
    BY <1>2 DEF ForkLogger
  <2>2. pc' \in [Process -> PC] /\ log_pid' \in [Main -> Logger \cup {NoProcess}]
    OBVIOUS
  <2>3. children' \in [Main -> SUBSET (Worker \cup Logger)]
    OBVIOUS
  <2>4. Buffers'
    BY <2>1
  <2> QED
    BY <2>1, <2>2, <2>3, <2>4
<1>3. CASE ForkFails(m)
  BY <1>3 DEF ForkFails, Goto
<1> QED
  BY <1>1, <1>2, <1>3 DEF InitStep

LEMMA TypesRelease ==
  ASSUME Types, NEW m \in Main, KillLogger(m) \/ ReleaseStep(m)
  PROVE  Types'
<1> USE ProcessAssumption DEF Types, TypeOK, Buffers, Holding, Logging, Process, PC, InRelease
<1>1. CASE KillLogger(m)
  BY <1>1 DEF KillLogger, Goto
<1>2. CASE WaitChild(m)
  BY <1>2 DEF WaitChild, Goto
<1>3. CASE RemoveQueue(m)
  <2>1. <<>> \in Seq(Message) /\ Len(<<>>) = 0
    BY EmptySeq
  <2>2. queue' \in Seq(Message) /\ Len(queue') <= QueueMax
    BY <1>3, <2>1 DEF RemoveQueue
  <2> QED
    BY <1>3, <2>2 DEF RemoveQueue, Goto
<1> QED
  BY <1>1, <1>2, <1>3 DEF ReleaseStep

LEMMA TypesSender ==
  ASSUME Types, NEW p \in Sender, LogCall(p) \/ SenderStep(p)
  PROVE  Types'
<1> USE ProcessAssumption DEF Types, TypeOK, Buffers, Holding, Logging, Process, Sender, PC, InMylogd
<1>1. ASSUME NEW t \in Content, NEW l \in {"send", "take_direct"}, Compose(p, t, l)
      PROVE  Types'
  <2>1. [by |-> p, no |-> sent[p] + 1, what |-> t] \in Message
    BY <1>1 DEF Compose, Message
  <2> QED
    BY <1>1, <2>1 DEF Compose, Put, Goto
<1>2. CASE Send(p)
  <2>1. hand[p] \in Message
    BY <1>2 DEF Send
  <2>2. queue' \in Seq(Message) /\ Len(queue') <= QueueMax
    BY <1>2, <2>1, AppendedOnce, LenProperties DEF Send
  <2> QED
    BY <1>2, <2>1, <2>2 DEF Send, Put, Goto
<1>3. CASE SendFails(p)
  BY <1>3 DEF SendFails, Put, Goto
<1> QED
  BY <1>1, <1>2, <1>3 DEF LogCall, Mylog, Mylogd, SenderStep

LEMMA TypesWriter ==
  ASSUME Types, NEW p \in Process, WriterStep(p)
  PROVE  Types'
<1> USE ProcessAssumption DEF Types, TypeOK, Buffers, Holding, Logging, PC, InLoop, InMylogd
<1>1. CASE Receive(p)
  <2>1. queue' \in Seq(Message) /\ Head(queue) \in Message /\ Len(queue') <= QueueMax
    BY <1>1, TakenOnce, LenProperties DEF Receive
  <2> QED
    BY <1>1, <2>1 DEF Receive, Put, Goto
<1>2. CASE TakeMutex(p)
  BY <1>2 DEF TakeMutex, Goto
<1>3. ASSUME NEW w \in BOOLEAN, Finish(p, w)
      PROVE  Types'
  <2>1. hand[p] \in Message /\ hand[p].by \in Sender
    BY <1>3 DEF Finish, Message
  <2>2. Append(file[hand[p].by], hand[p]) \in Seq(Message)
    BY <2>1, AppendedOnce
  <2>3. file' \in [Sender -> Seq(Message)]
    BY <1>3, <2>1, <2>2 DEF Finish
  <2>4. mutex' \in Process \cup {NoProcess}
    BY <1>3 DEF Finish, Unlocked
  <2> QED
    BY <1>3, <2>3, <2>4 DEF Finish, Put, Goto
<1> QED
  BY <1>1, <1>2, <1>3 DEF WriterStep, Write, OpenFails

LEMMA TypesAround ==
  ASSUME Types,
         \/ \E m \in Main, w \in Worker : StartWorker(m, w)
         \/ \E p \in Process : Die(p)
  PROVE  Types'
<1> USE ProcessAssumption DEF Types, TypeOK, Buffers, Holding, Logging, Process, PC
<1>1. ASSUME NEW m \in Main, NEW w \in Worker, StartWorker(m, w)
      PROVE  Types'
  BY <1>1 DEF StartWorker, Goto
<1>2. ASSUME NEW p \in Process, Die(p)
      PROVE  Types'
  BY <1>2 DEF Die, Put
<1> QED
  BY <1>1, <1>2

\* Every step is one of these.
LEMMA Steps ==
  ASSUME Next
  PROVE  \/ \E m \in Main : InitStep(m) \/ KillLogger(m) \/ ReleaseStep(m)
         \/ \E p \in Sender : LogCall(p) \/ SenderStep(p)
         \/ \E p \in Process : WriterStep(p)
         \/ \E m \in Main, w \in Worker : StartWorker(m, w)
         \/ \E p \in Process : Die(p)
  BY DEF Next, Crash, ExitWorker, Hangup, Process

LEMMA TypesStep == Types /\ [Next]_vars => Types'
<1>1. ASSUME Types, UNCHANGED vars PROVE Types'
  BY <1>1 DEF Types, TypeOK, Buffers, vars
<1> QED
  BY <1>1, Steps, TypesInitlog, TypesRelease, TypesSender, TypesWriter, TypesAround

\* The variables of log.c keep their types, whatever fails or dies.
THEOREM TypeCorrect == Spec => []TypeOK
<1>1. Types => TypeOK
  BY DEF Types
<1> QED
  BY <1>1, TypesInit, TypesStep, PTL DEF Spec

----------------------------------------------------------------------------
(* Nothing is in two places *)

\* The queue, the buffers and the file share no message.
Apart ==
    /\ Distinct(queue)
    /\ \A t \in Sender : Distinct(file[t])
    /\ \A t \in Sender : \A m \in Elements(file[t]) : m.by = t /\ m \notin Elements(queue)
    /\ \A p \in Process : hand[p] \notin Elements(queue)
    /\ \A p \in Process, t \in Sender : hand[p] \notin Elements(file[t])
    /\ \A p, q \in Process : p # q /\ hand[p] = hand[q] => hand[p] = NoMessage

\* The next number of a sender is a new one.
Numbered ==
    /\ \A m \in Elements(queue) \cup accepted : m.no <= sent[m.by]
    /\ \A t \in Sender : \A m \in Elements(file[t]) : m.no <= sent[m.by]
    /\ \A p \in Process : hand[p] # NoMessage => hand[p].no <= sent[hand[p].by]

LEMMA Places ==
  ASSUME Types
  PROVE  /\ Elements(queue) \subseteq Message
         /\ \A t \in Sender : Elements(file[t]) \subseteq Message
         /\ NoMessage \notin Elements(queue)
         /\ \A t \in Sender : NoMessage \notin Elements(file[t])
         /\ \A p \in Process : hand[p] \in Message \cup {NoMessage}
<1>1. queue \in Seq(Message) /\ \A t \in Sender : file[t] \in Seq(Message)
  BY DEF Types, TypeOK
<1>2. Elements(queue) \subseteq Message /\ \A t \in Sender : Elements(file[t]) \subseteq Message
  BY <1>1, ElementsOf
<1> QED
  BY <1>2, BufferAssumption DEF Types, TypeOK

LEMMA NoElements == Elements(<<>>) = {} /\ Distinct(<<>>)
<1>1. <<>> \in Seq({}) /\ Len(<<>>) = 0
  BY EmptySeq
<1>2. DOMAIN <<>> = {}
  BY <1>1, LenProperties
<1> QED
  BY <1>2 DEF Elements, Distinct

LEMMA ApartInit == Init => Apart /\ Numbered
  BY NoElements DEF Init, Apart, Numbered

LEMMA ComposedApart ==
  ASSUME Types, Apart, Numbered,
         NEW p \in Sender, NEW t \in Content, NEW l, Compose(p, t, l)
  PROVE  Apart' /\ Numbered'
<1> DEFINE n == [by |-> p, no |-> sent[p] + 1, what |-> t]
<1>1. n \in Message /\ n.by = p /\ n.no = sent[p] + 1 /\ sent[p] \in Nat
  BY ProcessAssumption DEF Types, TypeOK, Compose, Message
<1>2. /\ UNCHANGED <<queue, file, accepted>>
      /\ \A q \in Process : hand'[q] = IF q = p THEN n ELSE hand[q]
      /\ \A q \in Sender : sent'[q] = IF q = p THEN sent[p] + 1 ELSE sent[q]
  BY DEF Compose, Put, Types, TypeOK
<1>3. /\ n \notin Elements(queue) \cup accepted
      /\ \A u \in Sender : n \notin Elements(file[u])
      /\ \A q \in Process : hand[q] # n
  BY <1>1, BufferAssumption DEF Numbered
<1>4. Apart'
  BY <1>2, <1>3 DEF Apart
<1>5. \A m \in Message : m.by \in Sender /\ m.no \in Nat /\ (m.no <= sent[m.by] => m.no <= sent'[m.by])
  <2> TAKE m \in Message
  <2>1. m.by \in Sender /\ m.no \in 1..MaxSent
    BY DEF Message
  <2>2. sent[m.by] \in Nat /\ MaxSent \in Nat
    BY <2>1, ProcessAssumption DEF Types, TypeOK
  <2>3. sent[m.by] <= sent'[m.by]
    BY <1>1, <1>2, <2>1, <2>2
  <2>4. sent'[m.by] \in Nat
    BY <1>1, <1>2, <2>1, <2>2
  <2> QED
    BY <2>1, <2>2, <2>3, <2>4
<1>6. Numbered'
  <2> HIDE DEF n
  <2>1. n.no <= sent'[n.by]
    BY <1>1, <1>2 DEF Types, TypeOK
  <2> QED
    BY <1>2, <1>5, <2>1, Places DEF Numbered, Types, TypeOK
<1> QED
  BY <1>4, <1>6

LEMMA SentApart ==
  ASSUME Types, Apart, Numbered, NEW p \in Sender, Send(p)
  PROVE  Apart' /\ Numbered'
<1>1. p \in Process /\ pc[p] = "send" /\ queue \in Seq(Message)
  BY DEF Send, Types, TypeOK, Process, Sender
<1>2. hand[p] \in Message /\ hand[p] # NoMessage
  BY <1>1, BufferAssumption DEF Types, Buffers, Holding
<1>3. /\ UNCHANGED <<file, sent>> /\ accepted' = accepted \cup {hand[p]}
      /\ \A q \in Process : hand'[q] = IF q = p THEN NoMessage ELSE hand[q]
  BY DEF Send, Put, Types, TypeOK
<1>4. Elements(queue') = Elements(queue) \cup {hand[p]} /\ Distinct(queue')
  BY <1>1, <1>2, AppendedOnce DEF Send, Apart
<1> QED
  BY <1>1, <1>2, <1>3, <1>4, Places DEF Apart, Numbered

\* A message is dropped with the call or the process that had it.
LEMMA DroppedApart ==
  ASSUME Types, Apart, Numbered, NEW p \in Process, Put(p, NoMessage),
         UNCHANGED <<queue, file, sent, accepted>>
  PROVE  Apart' /\ Numbered'
<1>1. \A q \in Process : hand'[q] = IF q = p THEN NoMessage ELSE hand[q]
  BY DEF Put, Types, TypeOK
<1> QED
  BY <1>1, Places DEF Apart, Numbered

LEMMA ReceivedApart ==
  ASSUME Types, Apart, Numbered, NEW p \in Process, Receive(p)
  PROVE  Apart' /\ Numbered'
<1>1. /\ Elements(queue) = Elements(queue') \cup {Head(queue)}
      /\ Distinct(queue') /\ Head(queue) \notin Elements(queue')
  BY TakenOnce DEF Receive, Types, TypeOK, Apart
<1>2. /\ UNCHANGED <<file, sent, accepted>>
      /\ \A q \in Process : hand'[q] = IF q = p THEN Head(queue) ELSE hand[q]
  BY DEF Receive, Put, Types, TypeOK
<1> QED
  BY <1>1, <1>2, Places DEF Apart, Numbered

LEMMA WrittenApart ==
  ASSUME Types, Apart, Numbered, NEW p \in Process, Write(p)
  PROVE  Apart' /\ Numbered'
<1> DEFINE u == hand[p].by
<1>1. hand[p] \in Message /\ u \in Sender /\ file[u] \in Seq(Message)
  BY DEF Write, Finish, Types, TypeOK, Buffers, Holding, Message
<1>2. /\ UNCHANGED <<queue, sent, accepted>>
      /\ \A q \in Process : hand'[q] = IF q = p THEN NoMessage ELSE hand[q]
      /\ \A t \in Sender : file'[t] = IF t = u THEN Append(file[u], hand[p]) ELSE file[t]
  BY <1>1 DEF Write, Finish, Put, Types, TypeOK
<1>3. Elements(file'[u]) = Elements(file[u]) \cup {hand[p]} /\ Distinct(file'[u])
  BY <1>1, <1>2, AppendedOnce DEF Apart
<1>4. hand[p] # NoMessage
  BY <1>1, BufferAssumption
<1>5. Apart'
  BY <1>1, <1>2, <1>3, <1>4, Places DEF Apart
<1>6. Numbered'
  BY <1>1, <1>2, <1>3, <1>4 DEF Numbered
<1> QED
  BY <1>5, <1>6

LEMMA ApartStep == Types /\ Apart /\ Numbered /\ [Next]_vars => Apart' /\ Numbered'
<1> SUFFICES ASSUME Types, Apart, Numbered, [Next]_vars PROVE Apart' /\ Numbered'
  OBVIOUS
<1>1. ASSUME UNCHANGED <<queue, hand, file, sent, accepted>> PROVE Apart' /\ Numbered'
  BY <1>1 DEF Apart, Numbered
<1>2. ASSUME NEW m \in Main, InitStep(m) \/ KillLogger(m) \/ WaitChild(m)
      PROVE  Apart' /\ Numbered'
  BY <1>1, <1>2 DEF InitStep, OpenQueue, ForkLogger, ForkFails, KillLogger, WaitChild
<1>3. ASSUME NEW m \in Main, RemoveQueue(m)
      PROVE  Apart' /\ Numbered'
  BY <1>3, NoElements DEF RemoveQueue, Apart, Numbered
<1>4. ASSUME NEW p \in Sender, LogCall(p) \/ SenderStep(p)
      PROVE  Apart' /\ Numbered'
  <2>1. CASE SendFails(p)
    BY <2>1, DroppedApart DEF SendFails, Process, Sender
  <2> QED
    BY <1>4, <2>1, ComposedApart, SentApart DEF LogCall, Mylog, Mylogd, SenderStep
<1>5. ASSUME NEW p \in Process, WriterStep(p)
      PROVE  Apart' /\ Numbered'
  <2>1. CASE TakeMutex(p)
    BY <1>1, <2>1 DEF TakeMutex
  <2>2. CASE OpenFails(p)
    BY <2>2, DroppedApart DEF OpenFails, Finish
  <2> QED
    BY <1>5, <2>1, <2>2, ReceivedApart, WrittenApart DEF WriterStep
<1>6. ASSUME NEW m \in Main, NEW w \in Worker, StartWorker(m, w)
      PROVE  Apart' /\ Numbered'
  BY <1>1, <1>6 DEF StartWorker
<1>7. ASSUME NEW p \in Process, Die(p)
      PROVE  Apart' /\ Numbered'
  BY <1>7, DroppedApart DEF Die
<1> QED
  BY <1>1, <1>2, <1>3, <1>4, <1>5, <1>6, <1>7, Steps DEF vars, ReleaseStep

\* How often a message is in a sequence without repetitions.
LEMMA InOnce ==
  ASSUME NEW S, NEW s \in Seq(S), NEW m, Distinct(s)
  PROVE  LET at == {i \in DOMAIN s : s[i] = m}
         IN  Cardinality(at) = IF m \in Elements(s) THEN 1 ELSE 0
<1> DEFINE at == {i \in DOMAIN s : s[i] = m}
<1>1. CASE m \in Elements(s)
  <2> PICK i \in DOMAIN s : m = s[i]
    BY <1>1 DEF Elements
  <2>1. at = {i}
    BY DEF Distinct
  <2> QED
    BY <1>1, <2>1, FS_Singleton
<1>2. CASE m \notin Elements(s)
  <2>1. at = {}
    BY <1>2 DEF Elements
  <2> QED
    BY <1>2, <2>1, FS_EmptySet
<1> QED
  BY <1>1, <1>2

\* No message is ever in two places (NothingTwice), so none is written twice: with
\* two loggers on the queue of an earlier run, failures and deaths of anybody.
THEOREM WrittenOnce == Spec => []NothingTwice
<1>1. ASSUME Types, Apart PROVE NothingTwice
  <2> SUFFICES ASSUME NEW p \in Sender, NEW n \in 1..MaxSent, NEW t \in Content
               PROVE  Copies([by |-> p, no |-> n, what |-> t]) <= 1
    BY DEF NothingTwice
  <2> DEFINE m == [by |-> p, no |-> n, what |-> t]
             hands == {q \in Process : hand[q] = m}
  <2>1. m \in Message /\ m.by = p /\ m # NoMessage
    BY BufferAssumption DEF Message
  <2>2. queue \in Seq(Message) /\ file[p] \in Seq(Message)
    BY <1>1 DEF Types, TypeOK
  <2> HIDE DEF m
  <2>3. /\ Cardinality({i \in DOMAIN queue : queue[i] = m}) = IF m \in Elements(queue) THEN 1 ELSE 0
        /\ Cardinality({i \in DOMAIN file[p] : file[p][i] = m}) = IF m \in Elements(file[p]) THEN 1 ELSE 0
    BY <1>1, <2>2, InOnce DEF Apart
  <2>4. Cardinality(hands) = IF hands = {} THEN 0 ELSE 1
    <3>1. CASE hands = {}
      BY <3>1, FS_EmptySet
    <3>2. CASE hands # {}
      <4> PICK q \in Process : hand[q] = m
        BY <3>2
      <4>1. hands = {q}
        BY <1>1, <2>1 DEF Apart
      <4> QED
        BY <4>1, FS_Singleton
    <3> QED
      BY <3>1, <3>2
  <2>5. /\ m \in Elements(queue) => m \notin Elements(file[p]) /\ hands = {}
        /\ m \in Elements(file[p]) => hands = {}
    BY <1>1 DEF Apart
  <2>6. Copies(m) <= 1
    BY <2>1, <2>3, <2>4, <2>5 DEF Copies
  <2> QED
    BY <2>6 DEF m
<1>2. Init => Types /\ Apart /\ Numbered
  BY TypesInit, ApartInit
<1>3. Types /\ Apart /\ Numbered /\ [Next]_vars => (Types /\ Apart /\ Numbered)'
  BY TypesStep, ApartStep
<1> QED
  BY <1>1, <1>2, <1>3, PTL DEF Spec

----------------------------------------------------------------------------
(* Nothing accepted is lost *)

InWriter == {"take", "write"}

\* Nobody but a logger is in the loop, and no logger is told to stop.
LoggersStay ==
    /\ \A p \in Sender : pc[p] \notin InLoop
    /\ \A m \in Main : pc[m] \notin InRelease
    /\ hup = {}

WithWriter(m) == \E p \in Process : pc[p] \in InWriter /\ hand[p] = m

Kept ==
    /\ accepted \subseteq Message
    /\ \A m \in accepted :
          m \in Elements(queue) \/ WithWriter(m) \/ m \in Elements(file[m.by])

Reliable == ~MayFail /\ MayRelease = {} /\ MayCrash \cap Logger = {}

LEMMA LoggersStayStep == Reliable /\ Types /\ LoggersStay /\ [Next]_vars => LoggersStay'
<1> SUFFICES ASSUME Reliable, Types, LoggersStay, [Next]_vars PROVE LoggersStay'
  OBVIOUS
<1> USE ProcessAssumption DEF LoggersStay, InLoop, InRelease, Sender, Process, Types, TypeOK
<1>1. ASSUME NEW m \in Main, InitStep(m)
      PROVE  LoggersStay'
  <2>1. CASE OpenQueue(m)
    BY <2>1 DEF OpenQueue, Goto
  <2>2. CASE ForkLogger(m)
    <3> PICK l \in Logger : pc' = [pc EXCEPT ![m] = "idle", ![l] = "recv"] /\ hup' = hup
      BY <2>2 DEF ForkLogger
    <3> QED
      OBVIOUS
  <2>3. ~ForkFails(m)
    BY DEF ForkFails, Reliable
  <2> QED
    BY <1>1, <2>1, <2>2, <2>3 DEF InitStep
<1>2. ASSUME NEW m \in Main, KillLogger(m) \/ ReleaseStep(m)
      PROVE  FALSE
  BY <1>2 DEF KillLogger, ReleaseStep, WaitChild, RemoveQueue, Reliable
<1>3. ASSUME NEW p \in Sender, LogCall(p) \/ SenderStep(p)
      PROVE  LoggersStay'
  <2>1. \/ Goto(p, "send") /\ hup' = hup
        \/ Goto(p, "take_direct") /\ hup' = hup
        \/ Goto(p, "idle") /\ hup' = hup
    BY <1>3 DEF LogCall, Mylog, Mylogd, Compose, SenderStep, Send, SendFails
  <2> QED
    BY <2>1 DEF Goto
<1>4. ASSUME NEW p \in Process, WriterStep(p)
      PROVE  LoggersStay'
  <2>1. CASE Receive(p)
    BY <2>1 DEF Receive, Goto
  <2>2. CASE TakeMutex(p)
    BY <2>2 DEF TakeMutex, Goto
  <2>3. CASE Write(p) \/ OpenFails(p)
    BY <2>3 DEF Write, OpenFails, Finish, Goto
  <2> QED
    BY <1>4, <2>1, <2>2, <2>3 DEF WriterStep
<1>5. ASSUME NEW m \in Main, NEW w \in Worker, StartWorker(m, w)
      PROVE  LoggersStay'
  BY <1>5 DEF StartWorker, Goto
<1>6. ASSUME NEW p \in Process, Die(p)
      PROVE  LoggersStay'
  BY <1>6 DEF Die
<1>7. UNCHANGED vars => LoggersStay'
  BY DEF vars
<1> QED
  BY <1>1, <1>2, <1>3, <1>4, <1>5, <1>6, <1>7, Steps

LEMMA KeptStep == Reliable /\ Types /\ LoggersStay /\ Kept /\ [Next]_vars => Kept'
<1> SUFFICES ASSUME Reliable, Types, LoggersStay, Kept, [Next]_vars PROVE Kept'
  OBVIOUS
<1> USE DEF InWriter, WithWriter
\* Steps of processes that have no message on its way to a file.
<1>1. ASSUME UNCHANGED <<queue, file, accepted>>,
             \A p \in Process : pc[p] \in InWriter => pc'[p] \in InWriter /\ hand'[p] = hand[p]
      PROVE  Kept'
  BY <1>1 DEF Kept
<1>2. ASSUME NEW m \in Main, InitStep(m)
      PROVE  Kept'
  <2>1. UNCHANGED <<queue, file, accepted, hand>>
    BY <1>2 DEF InitStep, OpenQueue, ForkLogger, ForkFails
  <2>2. CASE ForkLogger(m)
    <3> PICK l \in Logger : pc' = [pc EXCEPT ![m] = "idle", ![l] = "recv"] /\ pc[l] = "none" /\ pc[m] = "forking"
      BY <2>2 DEF ForkLogger
    <3> QED
      BY <1>1, <2>1 DEF Types, TypeOK
  <2>3. CASE OpenQueue(m) \/ ForkFails(m)
    BY <1>1, <2>1, <2>3 DEF OpenQueue, ForkFails, Goto, Types, TypeOK
  <2> QED
    BY <1>2, <2>2, <2>3 DEF InitStep
<1>3. ASSUME NEW m \in Main, KillLogger(m) \/ ReleaseStep(m)
      PROVE  FALSE
  BY <1>3 DEF KillLogger, ReleaseStep, WaitChild, RemoveQueue, Reliable, LoggersStay, InRelease
<1>4. ASSUME NEW p \in Sender, LogCall(p) \/ SendFails(p)
      PROVE  Kept'
  BY <1>1, <1>4 DEF LogCall, Mylog, Mylogd, Compose, SendFails, Goto, Put, Types, TypeOK
<1>5. ASSUME NEW p \in Sender, Send(p)
      PROVE  Kept'
  <2>1. p \in Process /\ pc[p] = "send"
    BY <1>5 DEF Send, Process, Sender
  <2>2. hand[p] \in Message
    BY <2>1 DEF Types, Buffers, Holding
  <2>3. Elements(queue') = Elements(queue) \cup {hand[p]}
    BY <1>5, <2>2, AppendedOnce DEF Send, Types, TypeOK
  <2>4. /\ file' = file /\ accepted' = accepted \cup {hand[p]}
        /\ \A q \in Process : pc[q] \in InWriter => pc'[q] \in InWriter /\ hand'[q] = hand[q]
    BY <1>5, <2>1 DEF Send, Goto, Put, Types, TypeOK
  <2> QED
    BY <2>2, <2>3, <2>4 DEF Kept
<1>6. ASSUME NEW p \in Process, Receive(p)
      PROVE  Kept'
  <2>1. Elements(queue) = Elements(queue') \cup {Head(queue)}
    BY <1>6, TakenOnce DEF Receive, Types, TypeOK
  <2>2. /\ file' = file /\ accepted' = accepted
        /\ pc'[p] \in InWriter /\ hand'[p] = Head(queue)
        /\ \A q \in Process : pc[q] \in InWriter => pc'[q] \in InWriter /\ hand'[q] = hand[q]
    BY <1>6 DEF Receive, Goto, Put, Types, TypeOK
  <2> QED
    BY <2>1, <2>2 DEF Kept
<1>7. ASSUME NEW p \in Process, TakeMutex(p)
      PROVE  Kept'
  BY <1>1, <1>7 DEF TakeMutex, Goto, Types, TypeOK
<1>8. ASSUME NEW p \in Process, Write(p)
      PROVE  Kept'
  <2> DEFINE u == hand[p].by
  <2>1. hand[p] \in Message /\ u \in Sender /\ file[u] \in Seq(Message)
    BY <1>8 DEF Write, Finish, Types, TypeOK, Buffers, Holding, Message
  <2>2. Elements(Append(file[u], hand[p])) = Elements(file[u]) \cup {hand[p]}
    BY <2>1, AppendedOnce
  <2>3. \A t \in Sender : file'[t] = IF t = u THEN Append(file[u], hand[p]) ELSE file[t]
    BY <1>8, <2>1 DEF Write, Finish, Types
  <2>4. /\ queue' = queue /\ accepted' = accepted
        /\ \A q \in Process \ {p} : pc'[q] = pc[q] /\ hand'[q] = hand[q]
    BY <1>8 DEF Write, Finish, Goto, Put, Types, TypeOK
  <2>5. \A m \in Message : m.by \in Sender
    BY DEF Message
  <2> QED
    BY <2>1, <2>2, <2>3, <2>4, <2>5 DEF Kept
<1>9. ASSUME NEW p \in Process, OpenFails(p)
      PROVE  FALSE
  BY <1>9 DEF OpenFails, Reliable
<1>10. ASSUME NEW m \in Main, NEW w \in Worker, StartWorker(m, w)
       PROVE  Kept'
  BY <1>1, <1>10 DEF StartWorker, Goto, Types, TypeOK
<1>11. ASSUME NEW p \in Process \ Logger, Die(p)
       PROVE  Kept'
  <2>1. pc[p] \notin InWriter
    BY DEF LoggersStay, InLoop, Process, Sender
  <2> QED
    BY <1>1, <1>11, <2>1 DEF Die, Put, Types, TypeOK
<1>12. ASSUME NEW w \in Worker, ExitWorker(w)
       PROVE  Kept'
  BY <1>11, <1>12, ProcessAssumption DEF ExitWorker, Process
<1>13. ASSUME NEW l \in Logger, Hangup(l)
       PROVE  FALSE
  BY <1>13 DEF Hangup, LoggersStay
<1>14. ASSUME NEW p \in Process, Crash(p)
       PROVE  Kept'
  BY <1>11, <1>14 DEF Crash, Reliable
<1>15. UNCHANGED vars => Kept'
  BY <1>1 DEF vars
<1> QED
  BY <1>2, <1>3, <1>4, <1>5, <1>6, <1>7, <1>8, <1>9, <1>10, <1>12, <1>13, <1>14, <1>15
     DEF Next, SenderStep, WriterStep

LEMMA AtLeastOnce ==
  ASSUME NEW S, IsFiniteSet(S), S # {}
  PROVE  Cardinality(S) \in Nat /\ Cardinality(S) >= 1
  BY FS_CardinalityType, FS_EmptySet

\* A message accepted with LOG_OK is on the queue, with a logger or in the file
\* (AcceptedNotLost), also after the process that ran initlog has died and run it
\* anew: the second msgget finds the queue of the first (62-75).
THEOREM AcceptedKept ==
  ASSUME Reliable, IsFiniteSet(Process)
  PROVE  Spec => []AcceptedNotLost
<1>1. Init => Types /\ LoggersStay /\ Kept
  BY TypesInit, ProcessAssumption DEF Init, LoggersStay, Kept, InLoop, InRelease, Sender, Process
<1>2. Types /\ LoggersStay /\ Kept /\ [Next]_vars => (Types /\ LoggersStay /\ Kept)'
  BY TypesStep, LoggersStayStep, KeptStep
<1>3. ASSUME Types, Kept PROVE AcceptedNotLost
  <2> SUFFICES ASSUME NEW m \in accepted PROVE Copies(m) >= 1
    BY DEF AcceptedNotLost
  <2> DEFINE at(s) == {i \in DOMAIN s : s[i] = m}
             hands == {p \in Process : hand[p] = m}
  <2>1. m \in Message /\ m.by \in Sender
    BY <1>3 DEF Kept, Message
  <2>2. queue \in Seq(Message) /\ file[m.by] \in Seq(Message)
    BY <1>3, <2>1 DEF Types, TypeOK
  <2>3. ASSUME NEW s \in Seq(Message)
        PROVE  IsFiniteSet(at(s)) /\ (m \in Elements(s) => at(s) # {})
    <3>1. IsFiniteSet(DOMAIN s)
      BY LenProperties, FS_Interval
    <3> QED
      BY <3>1, FS_Subset DEF Elements
  <2>4. IsFiniteSet(hands)
    BY FS_Subset
  <2>5. at(queue) # {} \/ hands # {} \/ at(file[m.by]) # {}
    BY <1>3, <2>2, <2>3 DEF Kept, WithWriter
  <2>6. IsFiniteSet(at(queue)) /\ IsFiniteSet(at(file[m.by]))
    BY <2>2, <2>3
  <2> HIDE DEF at, hands
  <2>7. /\ Cardinality(at(queue)) \in Nat /\ Cardinality(hands) \in Nat
        /\ Cardinality(at(file[m.by])) \in Nat
    BY <2>4, <2>6, FS_CardinalityType
  <2>8. Cardinality(at(queue)) + Cardinality(hands) + Cardinality(at(file[m.by])) >= 1
    <3>1. CASE at(queue) # {}
      BY <2>6, <2>7, <3>1, AtLeastOnce
    <3>2. CASE hands # {}
      BY <2>4, <2>7, <3>2, AtLeastOnce
    <3>3. CASE at(file[m.by]) # {}
      BY <2>6, <2>7, <3>3, AtLeastOnce
    <3> QED
      BY <2>5, <3>1, <3>2, <3>3
  <2> QED
    BY <2>8 DEF Copies, at, hands
<1> QED
  BY <1>1, <1>2, <1>3, PTL DEF Spec

----------------------------------------------------------------------------
(* In order *)

\* initlog has not been run twice.
Once == \A m, n \in Main : pc[m] # "none" /\ pc[n] # "none" => m = n

\* One run of initlog makes one writer.
OneLogger ==
    /\ \A m \in Main : pc[m] = "forking" => \A p \in Process : pc[p] \notin InLoop
    /\ (\A m \in Main : pc[m] = "none") => \A p \in Process : pc[p] \notin InLoop
    /\ \A p, q \in Process : pc[p] \in InLoop /\ pc[q] \in InLoop => p = q

Before(m, n) == m.by = n.by => m.no < n.no

\* What a caller holds it has made itself, after everything else of its own.
Newest ==
    /\ \A p \in Process : pc[p] \in {"send"} \cup InMylogd => hand[p].by = p
    /\ \A p \in Process : pc[p] = "send" => \A m \in accepted : Before(m, hand[p])
    /\ \A p \in Process : pc[p] \in InMylogd => hand[p] \notin accepted
    /\ Elements(queue) \subseteq accepted
    /\ \A p \in Process : pc[p] \in InWriter => hand[p] \in accepted

\* From the file over the writer to the queue the accepted messages are in order.
InOrder ==
    /\ \A i, j \in DOMAIN queue : i < j => Before(queue[i], queue[j])
    /\ \A p \in Process : pc[p] \in InWriter => \A m \in Elements(queue) : Before(hand[p], m)
    /\ \A t \in Sender : \A i, j \in DOMAIN file[t] :
          {file[t][i], file[t][j]} \subseteq accepted /\ i < j => Before(file[t][i], file[t][j])
    /\ \A t \in Sender : \A m \in Elements(file[t]) \cap accepted :
          /\ \A n \in Elements(queue) : Before(m, n)
          /\ \A p \in Process : pc[p] \in InWriter => Before(m, hand[p])

LEMMA OnceStays == Types /\ [Next]_vars /\ Once' => Once
<1> SUFFICES ASSUME Types, [Next]_vars PROVE \A m \in Main : pc[m] # "none" => pc'[m] # "none"
  BY DEF Once
<1> USE ProcessAssumption DEF Types, TypeOK, Process, Sender
<1>1. ASSUME NEW m \in Main, InitStep(m) \/ KillLogger(m) \/ ReleaseStep(m)
      PROVE  \A n \in Main : pc[n] # "none" => pc'[n] # "none"
  <2>1. CASE ForkLogger(m)
    <3> PICK l \in Logger : pc' = [pc EXCEPT ![m] = "idle", ![l] = "recv"]
      BY <2>1 DEF ForkLogger
    <3> QED
      OBVIOUS
  <2> QED
    BY <1>1, <2>1 DEF InitStep, OpenQueue, ForkFails, KillLogger, ReleaseStep, WaitChild, RemoveQueue, Goto
<1>2. ASSUME NEW p \in Sender, LogCall(p) \/ SenderStep(p)
      PROVE  \A n \in Main : pc[n] # "none" => pc'[n] # "none"
  BY <1>2 DEF LogCall, Mylog, Mylogd, Compose, SenderStep, Send, SendFails, Goto
<1>3. ASSUME NEW p \in Process, WriterStep(p)
      PROVE  \A n \in Main : pc[n] # "none" => pc'[n] # "none"
  BY <1>3 DEF WriterStep, Receive, TakeMutex, Write, OpenFails, Finish, Goto
<1>4. ASSUME NEW m \in Main, NEW w \in Worker, StartWorker(m, w)
      PROVE  \A n \in Main : pc[n] # "none" => pc'[n] # "none"
  BY <1>4 DEF StartWorker, Goto
<1>5. ASSUME NEW p \in Process, Die(p)
      PROVE  \A n \in Main : pc[n] # "none" => pc'[n] # "none"
  BY <1>5 DEF Die
<1> QED
  BY <1>1, <1>2, <1>3, <1>4, <1>5, Steps DEF vars

LEMMA OneLoggerStep == Types /\ (Once => OneLogger) /\ [Next]_vars => (Once' => OneLogger')
<1> SUFFICES ASSUME Types, OneLogger, Once, [Next]_vars, Once' PROVE OneLogger'
  BY OnceStays
<1> USE ProcessAssumption DEF Types, TypeOK, Process, Sender, InLoop, OneLogger
\* Steps that put nobody into the loop and begin no initlog.
<1>1. ASSUME \A p \in Process : pc'[p] \in InLoop => pc[p] \in InLoop,
             \A m \in Main : pc'[m] \in {"none", "forking"} => pc'[m] = pc[m]
      PROVE  OneLogger'
  BY <1>1
<1>2. ASSUME NEW m \in Main, OpenQueue(m)
      PROVE  OneLogger'
  <2>1. pc' = [pc EXCEPT ![m] = "forking"] /\ pc[m] = "none"
    BY <1>2 DEF OpenQueue, Goto
  <2>2. \A n \in Main : pc[n] = "none"
    BY <2>1 DEF Once
  <2> QED
    BY <2>1, <2>2
<1>3. ASSUME NEW m \in Main, ForkLogger(m)
      PROVE  OneLogger'
  <2> PICK l \in Logger : pc' = [pc EXCEPT ![m] = "idle", ![l] = "recv"]
    BY <1>3 DEF ForkLogger
  <2>1. pc[m] = "forking"
    BY <1>3 DEF ForkLogger
  <2> QED
    BY <2>1 DEF Once
<1>4. ASSUME NEW m \in Main, ForkFails(m)
      PROVE  OneLogger'
  <2>1. pc' = [pc EXCEPT ![m] = "recv"] /\ pc[m] = "forking"
    BY <1>4 DEF ForkFails, Goto
  <2> QED
    BY <2>1 DEF Once
<1>5. ASSUME NEW m \in Main, KillLogger(m) \/ ReleaseStep(m)
      PROVE  OneLogger'
  BY <1>1, <1>5 DEF KillLogger, ReleaseStep, WaitChild, RemoveQueue, Goto
<1>6. ASSUME NEW p \in Sender, LogCall(p) \/ SenderStep(p)
      PROVE  OneLogger'
  <2>1. PICK l \in {"send", "take_direct", "idle"} : pc' = [pc EXCEPT ![p] = l]
    BY <1>6 DEF LogCall, Mylog, Mylogd, Compose, SenderStep, Send, SendFails, Goto
  <2> QED
    BY <1>1, <2>1
<1>7. ASSUME NEW p \in Process, WriterStep(p)
      PROVE  OneLogger'
  BY <1>1, <1>7 DEF WriterStep, Receive, TakeMutex, Write, OpenFails, Finish, Goto
<1>8. ASSUME NEW m \in Main, NEW w \in Worker, StartWorker(m, w)
      PROVE  OneLogger'
  BY <1>1, <1>8 DEF StartWorker, Goto
<1>9. ASSUME NEW p \in Process, Die(p)
      PROVE  OneLogger'
  BY <1>1, <1>9 DEF Die
<1>10. UNCHANGED vars => OneLogger'
  BY DEF vars
<1> QED
  BY <1>2, <1>3, <1>4, <1>5, <1>6, <1>7, <1>8, <1>9, <1>10, Steps DEF InitStep

----------------------------------------------------------------------------
\* A step that leaves the queue and the file alone, accepts nothing, and puts
\* no message into a buffer or on a way.
LEMMA NothingQueued ==
  ASSUME Newest, InOrder, UNCHANGED <<queue, file, accepted>>,
         \A p \in Process : pc'[p] \in Holding => hand'[p] = hand[p],
         \A p \in Process : pc'[p] = "send" => pc[p] = "send",
         \A p \in Process : pc'[p] \in InMylogd => pc[p] \in InMylogd,
         \A p \in Process : pc'[p] \in InWriter => pc[p] \in InWriter
  PROVE  Newest' /\ InOrder'
  BY DEF Newest, InOrder, Holding, InMylogd, InWriter

LEMMA ComposedInOrder ==
  ASSUME Types, Numbered, Newest, InOrder,
         NEW p \in Sender, NEW t \in Content, NEW l \in {"send", "take_direct"}, Compose(p, t, l)
  PROVE  Newest' /\ InOrder'
<1> DEFINE n == [by |-> p, no |-> sent[p] + 1, what |-> t]
<1>1. n.by = p /\ n.no = sent[p] + 1 /\ sent[p] \in Nat /\ p \in Process
  BY ProcessAssumption DEF Types, TypeOK, Process, Sender
<1>2. /\ UNCHANGED <<queue, file, accepted>>
      /\ \A q \in Process : hand'[q] = IF q = p THEN n ELSE hand[q]
      /\ \A q \in Process : pc'[q] = IF q = p THEN l ELSE pc[q]
  BY DEF Compose, Put, Goto, Types, TypeOK
<1> HIDE DEF n
<1>3. \A m \in accepted : m \in Message /\ m.no \in Nat /\ m.by \in Sender
  BY ProcessAssumption DEF Types, TypeOK, Message
<1>4. ASSUME NEW m \in accepted PROVE Before(m, n) /\ m # n
  <2>1. m.no <= sent[m.by] /\ m.no \in Nat
    BY <1>3 DEF Numbered
  <2>2. m.by = n.by => m.no < n.no
    BY <1>1, <2>1
  <2>3. m # n
    BY <1>1, <2>1
  <2> QED
    BY <2>2, <2>3 DEF Before
<1>5. Newest'
  BY <1>1, <1>2, <1>4 DEF Newest, InMylogd, InWriter
<1>6. InOrder'
  BY <1>2 DEF InOrder, InWriter
<1> QED
  BY <1>5, <1>6

LEMMA SentInOrder ==
  ASSUME Types, Apart, Newest, InOrder, NEW p \in Sender, Send(p)
  PROVE  Newest' /\ InOrder'
<1>1. /\ p \in Process /\ pc[p] = "send" /\ queue \in Seq(Message) /\ Len(queue) \in Nat
      /\ DOMAIN queue = 1..Len(queue)
  BY LenProperties DEF Send, Types, TypeOK, Process, Sender
<1>2. hand[p] \in Message /\ hand[p].by = p
  BY <1>1 DEF Types, Buffers, Holding, Newest
<1>3. /\ UNCHANGED <<file, sent>> /\ accepted' = accepted \cup {hand[p]}
      /\ \A q \in Process : hand'[q] = IF q = p THEN NoMessage ELSE hand[q]
      /\ \A q \in Process : pc'[q] = IF q = p THEN "idle" ELSE pc[q]
  BY DEF Send, Put, Goto, Types, TypeOK
<1>4. Elements(queue') = Elements(queue) \cup {hand[p]}
  BY <1>1, <1>2, AppendedOnce DEF Send
<1>5. /\ DOMAIN queue' = 1..(Len(queue) + 1)
      /\ \A i \in 1..Len(queue) : queue'[i] = queue[i]
      /\ queue'[Len(queue) + 1] = hand[p]
  BY <1>1, <1>2, AppendProperties, LenProperties DEF Send
<1>6. \A m \in accepted : Before(m, hand[p])
  BY <1>1 DEF Newest
<1>7. \A q \in Process : pc'[q] \in {"send"} \cup InMylogd => hand[q].by = q /\ hand'[q] = hand[q] /\ pc'[q] = pc[q] /\ q # p
  BY <1>3 DEF Newest, InMylogd
<1>8. Newest'
  <2>1. \A q \in Process : pc'[q] = "send" => \A m \in accepted' : Before(m, hand'[q])
    BY <1>2, <1>3, <1>7 DEF Newest, Before
  <2>2. \A q \in Process : pc'[q] \in InMylogd => hand'[q] \notin accepted'
    BY <1>2, <1>3, <1>7 DEF Newest
  <2>3. \A q \in Process : pc'[q] \in InWriter => hand'[q] \in accepted'
    BY <1>3 DEF Newest, InWriter
  <2> QED
    BY <1>3, <1>4, <1>7, <2>1, <2>2, <2>3 DEF Newest
<1>9. InOrder'
  <2>1. \A i \in 1..Len(queue) : queue[i] \in accepted
    BY <1>1 DEF Newest, Elements
  <2>2. \A i, j \in DOMAIN queue' : i < j => Before(queue'[i], queue'[j])
    BY <1>1, <1>5, <1>6, <2>1 DEF InOrder
  <2>3. \A q \in Process : pc'[q] \in InWriter => pc[q] \in InWriter /\ hand'[q] = hand[q] /\ hand[q] \in accepted
    BY <1>3 DEF InWriter, Newest
  <2>4. \A t \in Sender : Elements(file'[t]) \cap accepted' = Elements(file[t]) \cap accepted
    BY <1>1, <1>3 DEF Apart
  <2>5. \A t \in Sender : \A i \in DOMAIN file[t] : file[t][i] \in accepted' => file[t][i] \in accepted
    BY <2>4, <1>3 DEF Elements
  <2>6. \A q \in Process : pc'[q] \in InWriter => \A m \in Elements(queue') : Before(hand'[q], m)
    BY <1>4, <1>6, <2>3 DEF InOrder
  <2>7. \A t \in Sender : \A i, j \in DOMAIN file'[t] :
          {file'[t][i], file'[t][j]} \subseteq accepted' /\ i < j => Before(file'[t][i], file'[t][j])
    BY <1>3, <2>5 DEF InOrder
  <2>8. \A t \in Sender : \A m \in Elements(file'[t]) \cap accepted' :
          /\ \A n \in Elements(queue') : Before(m, n)
          /\ \A q \in Process : pc'[q] \in InWriter => Before(m, hand'[q])
    BY <1>4, <1>6, <2>3, <2>4 DEF InOrder
  <2> QED
    BY <2>2, <2>6, <2>7, <2>8 DEF InOrder
<1> QED
  BY <1>8, <1>9

LEMMA ReceivedInOrder ==
  ASSUME Types, OneLogger, Newest, InOrder, NEW p \in Process, Receive(p)
  PROVE  Newest' /\ InOrder'
<1> DEFINE h == Head(queue)
<1>1. /\ pc[p] = "recv" /\ queue \in Seq(Message) /\ queue # <<>>
  BY DEF Receive, Types, TypeOK
<1>2. /\ Len(queue) \in Nat \ {0} /\ DOMAIN queue = 1..Len(queue) /\ h = queue[1]
      /\ queue' = Tail(queue) /\ DOMAIN queue' = 1..(Len(queue) - 1)
      /\ \A i \in DOMAIN queue' : i + 1 \in DOMAIN queue /\ queue'[i] = queue[i + 1]
  <2>1. /\ Tail(queue) \in Seq(Message) /\ Len(Tail(queue)) = Len(queue) - 1
        /\ \A i \in 1..Len(Tail(queue)) : Tail(queue)[i] = queue[i + 1]
        /\ Head(queue) = queue[1]
    BY <1>1, HeadTailProperties
  <2>2. Len(queue) \in Nat \ {0} /\ DOMAIN queue = 1..Len(queue)
    BY <1>1, EmptySeq, LenProperties
  <2>3. queue' = Tail(queue)
    BY DEF Receive
  <2>4. DOMAIN queue' = 1..(Len(queue) - 1)
    BY <2>1, <2>3, LenProperties
  <2> QED
    BY <2>1, <2>2, <2>3, <2>4
<1>3. /\ UNCHANGED <<file, accepted>>
      /\ \A q \in Process : hand'[q] = IF q = p THEN h ELSE hand[q]
      /\ \A q \in Process : pc'[q] = IF q = p THEN "take" ELSE pc[q]
  BY DEF Receive, Put, Goto, Types, TypeOK
<1>4. \A q \in Process : pc'[q] \in InWriter <=> q = p
  BY <1>1, <1>3 DEF OneLogger, InWriter, InLoop
<1>5. Elements(queue) = Elements(queue') \cup {h} /\ h \in Elements(queue)
  BY <1>1, <1>2, TakenOnce
<1>6. \A m \in Elements(queue') : Before(h, m)
  <2> SUFFICES ASSUME NEW i \in DOMAIN queue' PROVE Before(h, queue'[i])
    BY DEF Elements
  <2>1. i + 1 \in DOMAIN queue /\ 1 \in DOMAIN queue /\ 1 < i + 1 /\ queue'[i] = queue[i + 1]
    BY <1>2
  <2> QED
    BY <1>2, <2>1 DEF InOrder
<1> HIDE DEF h
<1>7. Newest'
  BY <1>3, <1>4, <1>5 DEF Newest, InMylogd
<1>8. InOrder'
  <2>1. \A i, j \in DOMAIN queue' : i < j => Before(queue'[i], queue'[j])
    <3> SUFFICES ASSUME NEW i \in DOMAIN queue', NEW j \in DOMAIN queue', i < j
                 PROVE  Before(queue'[i], queue'[j])
      OBVIOUS
    <3>1. /\ i + 1 \in DOMAIN queue /\ j + 1 \in DOMAIN queue /\ i + 1 < j + 1
          /\ queue'[i] = queue[i + 1] /\ queue'[j] = queue[j + 1]
      BY <1>2
    <3> QED
      BY <3>1 DEF InOrder
  <2>2. \A t \in Sender : \A m \in Elements(file'[t]) \cap accepted' :
          /\ \A n \in Elements(queue') : Before(m, n)
          /\ \A q \in Process : pc'[q] \in InWriter => Before(m, hand'[q])
    BY <1>3, <1>4, <1>5 DEF InOrder
  <2>3. \A q \in Process : pc'[q] \in InWriter => \A m \in Elements(queue') : Before(hand'[q], m)
    BY <1>3, <1>4, <1>6
  <2>4. \A t \in Sender : \A i, j \in DOMAIN file'[t] :
          {file'[t][i], file'[t][j]} \subseteq accepted' /\ i < j => Before(file'[t][i], file'[t][j])
    BY <1>3 DEF InOrder
  <2> QED
    BY <2>1, <2>2, <2>3, <2>4 DEF InOrder
<1> QED
  BY <1>7, <1>8

LEMMA WrittenInOrderStep ==
  ASSUME Types, OneLogger, Newest, InOrder, NEW p \in Process, Write(p)
  PROVE  Newest' /\ InOrder'
<1> DEFINE u == hand[p].by
           k == Len(file[u]) + 1
<1>1. /\ hand[p] \in Message /\ u \in Sender /\ file[u] \in Seq(Message)
      /\ pc[p] \in {"write", "write_direct"}
  BY DEF Write, Finish, Types, TypeOK, Buffers, Holding, Message
<1>2. /\ UNCHANGED <<queue, sent, accepted>>
      /\ \A q \in Process : hand'[q] = IF q = p THEN NoMessage ELSE hand[q]
      /\ \A q \in Process \ {p} : pc'[q] = pc[q]
      /\ pc'[p] \in {"recv", "idle"}
      /\ \A t \in Sender : file'[t] = IF t = u THEN Append(file[u], hand[p]) ELSE file[t]
  BY <1>1 DEF Write, Finish, Put, Goto, Types, TypeOK
<1>3. /\ Elements(file'[u]) = Elements(file[u]) \cup {hand[p]}
      /\ DOMAIN file[u] = 1..Len(file[u]) /\ DOMAIN file'[u] = 1..k /\ Len(file[u]) \in Nat
      /\ \A i \in 1..Len(file[u]) : file'[u][i] = file[u][i]
      /\ file'[u][k] = hand[p]
  <2>1. file'[u] = Append(file[u], hand[p])
    BY <1>1, <1>2
  <2> HIDE DEF u
  <2>2. /\ file'[u] \in Seq(Message) /\ Len(file'[u]) = k
        /\ Elements(file'[u]) = Elements(file[u]) \cup {hand[p]}
    BY <1>1, <2>1, AppendedOnce
  <2>3. /\ \A i \in 1..Len(file[u]) : file'[u][i] = file[u][i]
        /\ file'[u][k] = hand[p]
    BY <1>1, <2>1, AppendProperties
  <2>4. /\ DOMAIN file[u] = 1..Len(file[u]) /\ Len(file[u]) \in Nat
        /\ DOMAIN file'[u] = 1..Len(file'[u])
    BY <1>1, <2>2, LenProperties
  <2> QED
    BY <2>2, <2>3, <2>4
<1>4. hand[p] \in accepted <=> pc[p] = "write"
  BY <1>1 DEF Newest, InMylogd, InWriter
<1>5. \A q \in Process : pc'[q] \in Holding => q # p /\ pc[q] = pc'[q] /\ hand'[q] = hand[q]
  BY <1>2 DEF Holding
<1>6. Newest'
  BY <1>2, <1>5 DEF Newest, Holding, InMylogd, InWriter
<1>7. hand[p] \in accepted => \A q \in Process : pc'[q] \notin InWriter
  BY <1>4, <1>2 DEF OneLogger, InLoop, InWriter
<1>8. /\ hand[p] \in accepted => \A n \in Elements(queue) : Before(hand[p], n)
      /\ \A m \in Elements(file[u]) \cap accepted : hand[p] \in accepted => Before(m, hand[p])
  BY <1>1, <1>4 DEF InOrder, InWriter
<1> HIDE DEF u, k
<1>9. \A t \in Sender : \A m \in Elements(file'[t]) \cap accepted :
          \/ m \in Elements(file[t]) \cap accepted
          \/ m = hand[p] /\ hand[p] \in accepted
  BY <1>2, <1>3
<1>10. InOrder'
  <2>1. \A t \in Sender : \A i, j \in DOMAIN file'[t] :
          {file'[t][i], file'[t][j]} \subseteq accepted' /\ i < j => Before(file'[t][i], file'[t][j])
    <3> SUFFICES ASSUME NEW t \in Sender, NEW i \in DOMAIN file'[t], NEW j \in DOMAIN file'[t],
                        file'[t][i] \in accepted, file'[t][j] \in accepted, i < j
                 PROVE  Before(file'[t][i], file'[t][j])
      BY <1>2
    <3>1. CASE t # u
      BY <1>2, <3>1 DEF InOrder
    <3>2. CASE t = u /\ j # k
      <4>1. i \in DOMAIN file[u] /\ j \in DOMAIN file[u]
        BY <1>3, <3>2 DEF k
      <4> QED
        BY <1>1, <1>3, <3>2, <4>1 DEF InOrder
    <3>3. CASE t = u /\ j = k
      <4>1. i \in DOMAIN file[u] /\ file'[u][i] = file[u][i] /\ file[u][i] \in Elements(file[u])
        BY <1>3, <3>3 DEF k, Elements
      <4> QED
        BY <1>3, <1>8, <3>3, <4>1
    <3> QED
      BY <3>1, <3>2, <3>3
  <2>2. \A t \in Sender : \A m \in Elements(file'[t]) \cap accepted' :
          /\ \A n \in Elements(queue') : Before(m, n)
          /\ \A q \in Process : pc'[q] \in InWriter => Before(m, hand'[q])
    BY <1>2, <1>5, <1>7, <1>8, <1>9 DEF InOrder, InWriter, Holding
  <2>3. \A q \in Process : pc'[q] \in InWriter => \A m \in Elements(queue') : Before(hand'[q], m)
    BY <1>2, <1>5 DEF InOrder, InWriter, Holding
  <2>4. \A i, j \in DOMAIN queue' : i < j => Before(queue'[i], queue'[j])
    BY <1>2 DEF InOrder
  <2> QED
    BY <2>1, <2>2, <2>3, <2>4 DEF InOrder
<1> QED
  BY <1>6, <1>10

Orderly == Once => OneLogger /\ Newest /\ InOrder

LEMMA OrderlyStep == Types /\ Apart /\ Numbered /\ Orderly /\ [Next]_vars => Orderly'
<1> SUFFICES ASSUME Types, Apart, Numbered, OneLogger, Newest, InOrder, [Next]_vars
             PROVE  Newest' /\ InOrder'
  BY OnceStays, OneLoggerStep DEF Orderly
<1> USE DEF Holding, InMylogd, InWriter
<1>1. ASSUME NEW m \in Main, InitStep(m)
      PROVE  Newest' /\ InOrder'
  <2>1. UNCHANGED <<queue, file, accepted, hand>>
    BY <1>1 DEF InitStep, OpenQueue, ForkLogger, ForkFails
  <2>2. \A p \in Process : pc'[p] = pc[p] \/ pc'[p] \in {"forking", "idle", "recv"}
    BY <1>1 DEF InitStep, OpenQueue, ForkLogger, ForkFails, Goto, Types, TypeOK
  <2> QED
    BY <2>1, <2>2, NothingQueued
<1>2. ASSUME NEW m \in Main, KillLogger(m) \/ WaitChild(m)
      PROVE  Newest' /\ InOrder'
  BY <1>2, NothingQueued DEF KillLogger, WaitChild, Goto, Types, TypeOK
<1>3. ASSUME NEW m \in Main, RemoveQueue(m)
      PROVE  Newest' /\ InOrder'
  <2>1. /\ Elements(queue') = {} /\ UNCHANGED <<file, accepted, hand>>
        /\ \A p \in Process : pc'[p] = pc[p] \/ pc'[p] = "released"
    BY <1>3, NoElements DEF RemoveQueue, Goto, Types, TypeOK
  <2>2. DOMAIN queue' = {}
    BY <2>1 DEF Elements
  <2> QED
    BY <2>1, <2>2 DEF Newest, InOrder
<1>4. ASSUME NEW p \in Sender, LogCall(p) \/ SenderStep(p)
      PROVE  Newest' /\ InOrder'
  <2>1. CASE SendFails(p)
    BY <2>1, NothingQueued DEF SendFails, Put, Goto, Types, TypeOK
  <2> QED
    BY <1>4, <2>1, ComposedInOrder, SentInOrder DEF LogCall, Mylog, Mylogd, SenderStep
<1>5. ASSUME NEW p \in Process, WriterStep(p)
      PROVE  Newest' /\ InOrder'
  <2>1. CASE TakeMutex(p)
    BY <2>1, NothingQueued DEF TakeMutex, Goto, Types, TypeOK
  <2>2. CASE OpenFails(p)
    BY <2>2, NothingQueued DEF OpenFails, Finish, Put, Goto, Types, TypeOK
  <2> QED
    BY <1>5, <2>1, <2>2, ReceivedInOrder, WrittenInOrderStep DEF WriterStep
<1>6. ASSUME NEW m \in Main, NEW w \in Worker, StartWorker(m, w)
      PROVE  Newest' /\ InOrder'
  BY <1>6, NothingQueued DEF StartWorker, Goto, Types, TypeOK
<1>7. ASSUME NEW p \in Process, Die(p)
      PROVE  Newest' /\ InOrder'
  BY <1>7, NothingQueued DEF Die, Put, Types, TypeOK
<1>8. UNCHANGED vars => Newest' /\ InOrder'
  BY NothingQueued DEF vars
<1> QED
  BY <1>1, <1>2, <1>3, <1>4, <1>5, <1>6, <1>7, <1>8, Steps DEF ReleaseStep

\* While initlog has been run once, the file has what a process sent by mylog
\* in the order it was sent (WrittenInOrder), whoever fails, dies, releases, or
\* writes between them by mylogd.
THEOREM WrittenAsSent == ASSUME IsFiniteSet(Main) PROVE Spec => []WrittenInOrder
<1>1. Init => Types /\ Apart /\ Numbered /\ Orderly
  <2> SUFFICES ASSUME Init PROVE OneLogger /\ Newest /\ InOrder
    BY TypesInit, ApartInit DEF Orderly
  <2>1. Elements(queue) = {} /\ \A t \in Sender : Elements(file[t]) = {}
    BY NoElements DEF Init
  <2>2. DOMAIN queue = {} /\ \A t \in Sender : DOMAIN file[t] = {}
    BY <2>1 DEF Elements
  <2> QED
    BY <2>1, <2>2 DEF Init, OneLogger, Newest, InOrder, InLoop, InMylogd, InWriter
<1>2. Types /\ Apart /\ Numbered /\ Orderly /\ [Next]_vars => (Types /\ Apart /\ Numbered /\ Orderly)'
  BY TypesStep, ApartStep, OrderlyStep
<1>3. ASSUME Types, Apart, Orderly PROVE WrittenInOrder
  <2> DEFINE run == {m \in Main : pc[m] # "none"}
  <2>0. \A t \in Sender : \A i \in DOMAIN file[t] : file[t][i].by = t
    BY <1>3 DEF Apart, Elements
  <2> SUFFICES ASSUME Cardinality(run) <= 1
               PROVE  InOrder
    BY <2>0 DEF WrittenInOrder, InOrder, Before
  <2>1. IsFiniteSet(run) /\ Cardinality(run) \in Nat
    BY FS_Subset, FS_CardinalityType
  <2>2. Cardinality(run) = 0 \/ Cardinality(run) = 1
    BY <2>1
  <2>3. run = {} \/ \E m : run = {m}
    BY <2>1, <2>2, FS_EmptySet, FS_Singleton
  <2>4. Once
    BY <2>3 DEF Once
  <2> QED
    BY <1>3, <2>4 DEF Orderly
<1> QED
  BY <1>1, <1>2, <1>3, PTL DEF Spec
============================================================================
