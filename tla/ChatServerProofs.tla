-------------------------- MODULE ChatServerProofs --------------------------
(***************************************************************************)
(* Proofs about ChatServer, for any number of clients, slots and           *)
(* descriptors, whatever the clients send and whichever signals arrive:    *)
(* the slots and the connections, the types, and that the server carries   *)
(* one conversation, heard by all in the same order, as ChatRelay does.    *)
(* Only the last part is about said and place.                             *)
(***************************************************************************)
EXTENDS ChatRelayRefinement, TLAPS, FiniteSetTheorems, SequenceTheorems, WellFoundedInduction

Used(ch) == {i \in Slot : ch[i] # NoClient}

\* Nobody waits twice, waits and is served, or does either before it connects.
WaitingApart ==
    /\ \A i, j \in DOMAIN backlog : i # j => backlog[i] # backlog[j]
    /\ \A i \in DOMAIN backlog : backlog[i] \notin open /\ state[backlog[i]] # "out"
    /\ \A c \in open : state[c] # "out"

\* The echo goes to the slot the text was read from, and that slot is in use.
EchoBack == pc = "echo" => pos \in Slot /\ child[pos] # NoClient /\ to = pos

SInv ==
    /\ child \in [Slot -> Client \cup {NoClient}]
    /\ open \subseteq Client
    /\ backlog \in Seq(Client)
    /\ state \in [Client -> {"out", "up", "shut", "reset"}]
    /\ WaitingApart
    /\ EchoBack
    /\ SlotsMatch

----------------------------------------------------------------------------
\* The first of some slots is one of them.
LEMMA FirstSlot ==
  ASSUME NEW S \in SUBSET Nat, S # {}
  PROVE  Min(S) \in S
<1>1. IsWellFoundedOn(OpToRel(<, Nat), Nat)
  BY NatLessThanWellFounded
<1>2. PICK x \in S : \A y \in S : ~(<<y, x>> \in OpToRel(<, Nat))
  BY <1>1, WFMin
<1>3. \A y \in S : ~(y < x)
  BY <1>2 DEF OpToRel
<1>4. \A y \in S : x =< y
  BY <1>3
<1> QED
  BY <1>4 DEF Min

LEMMA FirstIsLeast ==
  ASSUME NEW S \in SUBSET Nat, S # {}
  PROVE  \A y \in S : Min(S) <= y
<1>1. IsWellFoundedOn(OpToRel(<, Nat), Nat)
  BY NatLessThanWellFounded
<1>2. PICK x \in S : \A y \in S : ~(<<y, x>> \in OpToRel(<, Nat))
  BY <1>1, WFMin
<1>3. \A y \in S : ~(y < x)
  BY <1>2 DEF OpToRel
<1>4. \A y \in S : x =< y
  BY <1>3
<1> QED
  BY <1>4 DEF Min

LEMMA SlotsNat == Slot \subseteq Nat /\ IsFiniteSet(Slot)
  BY ServerAssumption, FS_Interval DEF Slot

LEMMA UsedFinite == ASSUME NEW ch PROVE IsFiniteSet(Used(ch))
  BY SlotsNat, FS_Subset DEF Used

\* A connection that no slot holds goes into an unused one (171-186).
LEMMA SlotTaken ==
  ASSUME child \in [Slot -> Client \cup {NoClient}], SlotsMatch,
         NEW i \in Slot, child[i] = NoClient,
         NEW c \in Client, c \notin open,
         child' = [child EXCEPT ![i] = c],
         open' = open \cup {c},
         child_no' = child_no + 1
  PROVE  SlotsMatch'
<1> c # NoClient
  BY ServerAssumption
<1>1. Used(child') = Used(child) \cup {i} /\ i \notin Used(child)
  BY DEF Used
<1>2. child_no' = Cardinality(Used(child'))
  BY <1>1, UsedFinite, FS_AddElement DEF SlotsMatch, Used
<1>3. open' = {child'[k] : k \in Used(child')}
  BY <1>1 DEF SlotsMatch, Used
<1>4. \A k, l \in Used(child') : k # l => child'[k] # child'[l]
  BY <1>1 DEF SlotsMatch, Used
<1> QED
  BY <1>2, <1>3, <1>4 DEF SlotsMatch, Used

\* The slot of a connection is freed together with it (208-214).
LEMMA SlotFreed ==
  ASSUME child \in [Slot -> Client \cup {NoClient}], SlotsMatch,
         NEW i \in Slot, child[i] # NoClient,
         child' = [child EXCEPT ![i] = NoClient],
         open' = open \ {child[i]},
         child_no' = child_no - 1
  PROVE  SlotsMatch'
<1>1. Used(child') = Used(child) \ {i} /\ i \in Used(child)
  BY DEF Used
<1>2. child_no' = Cardinality(Used(child'))
  BY <1>1, UsedFinite, FS_RemoveElement DEF SlotsMatch, Used
<1>3. open' = {child'[k] : k \in Used(child')}
  BY <1>1 DEF SlotsMatch, Used
<1>4. \A k, l \in Used(child') : k # l => child'[k] # child'[l]
  BY <1>1 DEF SlotsMatch, Used
<1> QED
  BY <1>2, <1>3, <1>4 DEF SlotsMatch, Used

\* What the server does to a connection it drops, whichever call failed.
LEMMA DropKeeps ==
  ASSUME SInv, NEW i \in Slot, child[i] # NoClient, Drop(i),
         state' \in [Client -> {"out", "up", "shut", "reset"}],
         \A c \in Client : state'[c] = "out" <=> state[c] = "out"
  PROVE  SInv'
<1>1. SlotsMatch'
  BY SlotFreed DEF SInv, Drop
<1>2. WaitingApart'
  BY DEF SInv, WaitingApart, Drop
<1> QED
  BY <1>1, <1>2 DEF SInv, Drop, EchoBack

\* A step that leaves the slots and the waiting connections alone, and does
\* not begin an echo.
LEMMA NothingMoves ==
  ASSUME SInv, UNCHANGED <<child, child_no, open, backlog>>,
         state' \in [Client -> {"out", "up", "shut", "reset"}],
         \A c \in Client : state'[c] = "out" <=> state[c] = "out",
         EchoBack'
  PROVE  SInv'
<1>1. SlotsMatch'
  BY DEF SInv, SlotsMatch
<1>2. WaitingApart'
  BY ElementOfSeq, LenProperties DEF SInv, WaitingApart
<1> QED
  BY <1>1, <1>2 DEF SInv

----------------------------------------------------------------------------
(* The steps *)

\* Accept: the head of the backlog goes into the first free slot.
LEMMA AcceptKeeps ==
  ASSUME SInv, Accept
  PROVE  SInv'
<1> DEFINE c == Head(backlog)
<1>1. c = backlog[1] /\ 1 \in DOMAIN backlog /\ c \in Client
  BY HeadTailProperties, EmptySeq, LenProperties, ElementOfSeq DEF SInv, Accept
<1>2. /\ backlog' \in Seq(Client)
      /\ \A k \in DOMAIN backlog' : k + 1 \in DOMAIN backlog /\ backlog'[k] = backlog[k + 1]
      /\ DOMAIN backlog' \subseteq Nat \ {0}
  <2>1. backlog \in Seq(Client) /\ backlog # <<>> /\ backlog' = Tail(backlog)
    BY DEF SInv, Accept
  <2>2. /\ backlog' \in Seq(Client) /\ Len(backlog') = Len(backlog) - 1
        /\ \A k \in 1..Len(backlog') : backlog'[k] = backlog[k + 1]
    BY <2>1, HeadTailProperties
  <2>3. DOMAIN backlog = 1..Len(backlog) /\ DOMAIN backlog' = 1..Len(backlog') /\ Len(backlog) \in Nat
    BY <2>1, <2>2, LenProperties
  <2> QED
    BY <2>2, <2>3
<1>3. Min(FreeSlots) \in Slot /\ child[Min(FreeSlots)] = NoClient
  BY FirstSlot, SlotsNat DEF FreeSlots, Accept
<1>4. c \notin open /\ state[c] # "out"
  BY <1>1 DEF SInv, WaitingApart
<1>5. SlotsMatch'
  BY <1>1, <1>3, <1>4, SlotTaken DEF SInv, Accept
<1>6. WaitingApart'
  <2>1. \A k \in DOMAIN backlog' : backlog'[k] # c
    BY <1>1, <1>2 DEF SInv, WaitingApart
  <2> QED
    BY <1>1, <1>2, <1>4, <2>1 DEF SInv, WaitingApart, Accept
<1> QED
  BY <1>1, <1>2, <1>3, <1>5, <1>6 DEF SInv, EchoBack, Accept, ToServe

LEMMA AcceptFullKeeps ==
  ASSUME SInv, AcceptFull
  PROVE  SInv'
<1>1. backlog \in Seq(Client) /\ backlog # <<>> /\ backlog' = Tail(backlog)
  BY DEF SInv, AcceptFull
<1>2. /\ backlog' \in Seq(Client) /\ Len(backlog') = Len(backlog) - 1
      /\ \A k \in 1..Len(backlog') : backlog'[k] = backlog[k + 1]
  BY <1>1, HeadTailProperties
<1>3. DOMAIN backlog = 1..Len(backlog) /\ DOMAIN backlog' = 1..Len(backlog') /\ Len(backlog) \in Nat
  BY <1>1, <1>2, LenProperties
<1>4. WaitingApart'
  BY <1>2, <1>3 DEF SInv, WaitingApart, AcceptFull
<1>5. SlotsMatch'
  BY DEF SInv, SlotsMatch, AcceptFull
<1> QED
  BY <1>2, <1>4, <1>5 DEF SInv, EchoBack, AcceptFull, ToServe

\* The slot that is served next is in use.
LEMMA ServedInUse ==
  ASSUME ToBeServed # {}
  PROVE  Min(ToBeServed) \in Slot /\ child[Min(ToBeServed)] # NoClient
  BY FirstSlot, SlotsNat DEF ToBeServed

LEMMA RecvKeeps ==
  ASSUME SInv, RecvStep
  PROVE  SInv'
<1> DEFINE i == Min(ToBeServed)
<1>1. i \in Slot /\ child[i] # NoClient
  BY ServedInUse DEF RecvStep, Recv, RecvEOF, RecvError
<1>2. CASE Recv
  <2>1. \E s : Relay(i, s)
    BY <1>2 DEF Recv
  <2>2. UNCHANGED <<child, child_no, open, backlog, state>> /\ EchoBack'
    BY <1>1, <1>2, <2>1 DEF Recv, Relay, EchoBack
  <2> QED
    BY <2>2, NothingMoves DEF SInv
<1>3. CASE RecvEOF
  <2>1. UNCHANGED state
    BY <1>3 DEF RecvEOF
  <2>2. CASE Relay(i, <<>>)
    <3>1. UNCHANGED <<child, child_no, open, backlog, state>> /\ EchoBack'
      BY <1>1, <2>1, <2>2 DEF Relay, EchoBack
    <3> QED
      BY <3>1, NothingMoves DEF SInv
  <2>3. CASE Drop(i)
    BY <1>1, <2>1, <2>3, DropKeeps DEF SInv
  <2> QED
    BY <1>3, <2>2, <2>3 DEF RecvEOF
<1>4. CASE RecvError
  BY <1>1, <1>4, DropKeeps DEF RecvError, SInv
<1> QED
  BY <1>2, <1>3, <1>4 DEF RecvStep

\* A failed send: the echo's drops the connection it was read from.
LEMMA SendErrorKeeps ==
  ASSUME SInv, SendError, UNCHANGED state
  PROVE  SInv'
<1>1. CASE pc = "echo" /\ Drop(pos)
  BY <1>1, DropKeeps DEF SInv, EchoBack
<1>2. CASE pc = "cast" /\ NextSend
  BY <1>2, NothingMoves DEF NextSend, EchoBack, SInv
<1> QED
  BY <1>1, <1>2 DEF SendError

LEMMA NextSendKeeps ==
  ASSUME SInv, NextSend,
         state' \in [Client -> {"out", "up", "shut", "reset"}],
         \A c \in Client : state'[c] = "out" <=> state[c] = "out"
  PROVE  SInv'
  BY NothingMoves DEF NextSend, EchoBack

LEMMA SendKeeps ==
  ASSUME SInv, SendStep
  PROVE  SInv'
<1>1. CASE SendUnit
  BY <1>1, NothingMoves DEF SendUnit, EchoBack, SInv
<1>2. CASE SendDone \/ SendFull
  BY <1>2, NextSendKeeps DEF SendDone, SendFull, SInv
<1>3. CASE SendGone
  <2>1. /\ state' \in [Client -> {"out", "up", "shut", "reset"}]
        /\ \A c \in Client : state'[c] = "out" <=> state[c] = "out"
    BY <1>3 DEF SendGone, SInv
  <2> QED
    BY <1>3, <2>1, NextSendKeeps DEF SendGone
<1>4. CASE SendFails
  BY <1>4, SendErrorKeeps DEF SendFails
<1> QED
  BY <1>1, <1>2, <1>3, <1>4 DEF SendStep

LEMMA LoopKeeps ==
  ASSUME SInv, LoopStep
  PROVE  SInv'
<1>1. CASE Test \/ Select \/ AcceptFails \/ AcceptNone \/ ServeDone
  BY <1>1, NothingMoves
     DEF Test, Select, AcceptFails, AcceptNone, ServeDone, ToServe, clients, EchoBack, SInv
<1> QED
  BY <1>1, AcceptKeeps, AcceptFullKeeps DEF LoopStep

LEMMA SignalKeeps ==
  ASSUME SInv, SignalStep
  PROVE  SInv'
<1> PICK s \in Signals : Signal(s) \/ SelectInterrupted(s) \/ SendInterrupted(s)
  BY DEF SignalStep
<1>1. CASE Signal(s) \/ SelectInterrupted(s)
  BY <1>1, NothingMoves DEF Signal, SelectInterrupted, clients, EchoBack, SInv
<1>2. CASE SendInterrupted(s)
  BY <1>2, SendErrorKeeps, NextSendKeeps DEF SendInterrupted, SInv
<1> QED
  BY <1>1, <1>2

\* What is left of a sequence without its k-th member: the same members in the
\* same order, each once.
LEMMA RemovedOnce ==
  ASSUME NEW S, NEW s \in Seq(S), NEW k \in 1..Len(s)
  PROVE  /\ RemoveAt(s, k) \in Seq(S)
         /\ Len(RemoveAt(s, k)) = Len(s) - 1
         /\ \A i \in 1..(Len(s) - 1) :
              RemoveAt(s, k)[i] = IF i < k THEN s[i] ELSE s[i + 1]
<1> DEFINE a == SubSeq(s, 1, k - 1)
           b == SubSeq(s, k + 1, Len(s))
<1>1. Len(s) \in Nat /\ \A i \in 1..Len(s) : s[i] \in S
  BY LenProperties, ElementOfSeq
<1>2. a \in Seq(S) /\ Len(a) = k - 1 /\ \A i \in 1..(k - 1) : a[i] = s[i]
  <2>1. \A i \in 1..(k - 1) : s[i] \in S
    BY <1>1
  <2>2. /\ a \in Seq(S)
        /\ Len(a) = IF 1 <= k - 1 THEN k - 1 - 1 + 1 ELSE 0
        /\ \A i \in 1..(k - 1 - 1 + 1) : a[i] = s[1 + i - 1]
    BY <2>1, SubSeqProperties
  <2> QED
    BY <1>1, <2>2
<1>3. b \in Seq(S) /\ Len(b) = Len(s) - k /\ \A i \in 1..(Len(s) - k) : b[i] = s[k + i]
  <2>1. \A i \in (k + 1)..Len(s) : s[i] \in S
    BY <1>1
  <2>2. /\ b \in Seq(S)
        /\ Len(b) = IF k + 1 <= Len(s) THEN Len(s) - (k + 1) + 1 ELSE 0
        /\ \A i \in 1..(Len(s) - (k + 1) + 1) : b[i] = s[k + 1 + i - 1]
    BY <1>1, <2>1, SubSeqProperties
  <2> QED
    BY <1>1, <2>2
<1>4. /\ a \o b \in Seq(S) /\ Len(a \o b) = Len(a) + Len(b)
      /\ \A i \in 1..(Len(a) + Len(b)) :
            (a \o b)[i] = IF i <= Len(a) THEN a[i] ELSE b[i - Len(a)]
  BY <1>2, <1>3, ConcatProperties
<1>5. ASSUME NEW i \in 1..(Len(s) - 1)
      PROVE  (a \o b)[i] = IF i < k THEN s[i] ELSE s[i + 1]
  <2>1. CASE i < k
    BY <1>1, <1>2, <1>3, <1>4, <2>1
  <2>2. CASE ~(i < k)
    <3>1. i - Len(a) \in 1..(Len(s) - k) /\ k + (i - Len(a)) = i + 1
      BY <1>1, <1>2, <2>2
    <3> HIDE DEF a, b
    <3>2. (a \o b)[i] = b[i - Len(a)]
      BY <1>1, <1>2, <1>3, <1>4, <2>2
    <3> QED
      BY <1>3, <2>2, <3>1, <3>2
  <2> QED
    BY <2>1, <2>2
<1> HIDE DEF a, b
<1>6. Len(a \o b) = Len(s) - 1
  BY <1>1, <1>2, <1>3, <1>4
<1> QED
  BY <1>4, <1>5, <1>6 DEF RemoveAt, a, b

LEMMA ClientKeeps ==
  ASSUME SInv, NEW c \in Client, ClientStep(c)
  PROVE  SInv'
<1>1. CASE ClientSend(c) \/ ClientRead(c)
  BY <1>1, NothingMoves DEF ClientSend, ClientRead, server, EchoBack, SInv
<1>2. CASE Connect(c)
  <2>1. /\ backlog \in Seq(Client) /\ Len(backlog) \in Nat
        /\ DOMAIN backlog = 1..Len(backlog)
    BY LenProperties DEF SInv
  <2>2. /\ backlog' \in Seq(Client)
        /\ DOMAIN backlog' = 1..(Len(backlog) + 1)
        /\ \A k \in 1..Len(backlog) : backlog'[k] = backlog[k]
        /\ backlog'[Len(backlog) + 1] = c
    BY <1>2, <2>1, AppendProperties, LenProperties DEF Connect
  <2>3. /\ \A k \in DOMAIN backlog : backlog[k] # c
        /\ c \notin open
    BY <1>2 DEF Connect, SInv, WaitingApart
  <2>4. \A d \in Client : state'[d] = IF d = c THEN "up" ELSE state[d]
    BY <1>2 DEF Connect, SInv
  <2>5. \A k \in 1..Len(backlog) : backlog[k] \in Client
    BY <2>1, ElementOfSeq
  <2>6. WaitingApart'
    BY <1>2, <2>1, <2>2, <2>3, <2>4, <2>5 DEF Connect, SInv, WaitingApart
  <2> QED
    BY <1>2, <2>2, <2>6 DEF Connect, server, SInv, EchoBack, SlotsMatch
<1>3. CASE Leave(c)
  <2>1. /\ state' \in [Client -> {"out", "up", "shut", "reset"}]
        /\ \A d \in Client : state'[d] = "out" <=> state[d] = "out"
    BY <1>3 DEF Leave, SInv
  <2>2. EchoBack' /\ SlotsMatch'
    BY <1>3 DEF Leave, server, SInv, EchoBack, SlotsMatch
  <2>3. CASE backlog' = backlog
    BY <1>3, <2>1, <2>2, <2>3, NothingMoves DEF Leave, server
  <2>4. CASE \E k \in 1..Len(backlog) : backlog' = RemoveAt(backlog, k)
    <3> PICK k \in 1..Len(backlog) : backlog' = RemoveAt(backlog, k)
      BY <2>4
    <3>1. /\ backlog \in Seq(Client) /\ Len(backlog) \in Nat
          /\ DOMAIN backlog = 1..Len(backlog)
          /\ \A i \in 1..Len(backlog) : backlog[i] \in Client
      BY LenProperties, ElementOfSeq DEF SInv
    <3>2. /\ backlog' \in Seq(Client) /\ Len(backlog') = Len(backlog) - 1
          /\ \A i \in 1..(Len(backlog) - 1) :
               backlog'[i] = IF i < k THEN backlog[i] ELSE backlog[i + 1]
      BY <3>1, RemovedOnce
    <3>3. DOMAIN backlog' = 1..(Len(backlog) - 1)
      BY <3>2, LenProperties
    <3> DEFINE at(i) == IF i < k THEN i ELSE i + 1
    <3>4. /\ \A i \in DOMAIN backlog' : at(i) \in DOMAIN backlog /\ backlog'[i] = backlog[at(i)]
          /\ \A i, j \in DOMAIN backlog' : i # j => at(i) # at(j)
      BY <3>1, <3>2, <3>3
    <3>5. WaitingApart /\ open' = open /\ open \subseteq Client
      BY <1>3 DEF Leave, SInv
    <3> HIDE DEF at
    <3>6. WaitingApart'
      <4>1. \A i, j \in DOMAIN backlog' : i # j => backlog'[i] # backlog'[j]
        BY <3>4, <3>5 DEF WaitingApart
      <4>2. \A i \in DOMAIN backlog' : backlog'[i] \notin open' /\ state'[backlog'[i]] # "out"
        BY <2>1, <3>1, <3>4, <3>5 DEF WaitingApart
      <4>3. \A d \in open' : state'[d] # "out"
        BY <2>1, <3>5 DEF WaitingApart
      <4> QED
        BY <4>1, <4>2, <4>3 DEF WaitingApart
    <3> QED
      BY <1>3, <2>1, <2>2, <3>2, <3>6 DEF Leave, server, SInv
  <2>5. ASSUME \E k \in 1..Len(backlog) : backlog[k] = c
        PROVE  SelectInSeq(backlog, LAMBDA d : d = c) \in 1..Len(backlog)
    <3> DEFINE I == {k \in 1..Len(backlog) : backlog[k] = c}
    <3>1. I # {} /\ I \in SUBSET Nat
      BY <2>5
    <3>2. Min(I) \in I
      BY <3>1, FirstSlot
    <3> QED
      BY <3>1, <3>2 DEF SelectInSeq
  <2> QED
    BY <1>3, <2>3, <2>4, <2>5 DEF Leave, RemoveFirst
<1> QED
  BY <1>1, <1>2, <1>3 DEF ClientStep

----------------------------------------------------------------------------
LEMMA SInvInit == Init => SInv
<1> SUFFICES ASSUME Init PROVE SInv
  OBVIOUS
<1>1. Used(child) = {} /\ Cardinality({}) = 0
  BY FS_EmptySet DEF Init, Used
<1>2. SlotsMatch
  BY <1>1 DEF Init, SlotsMatch, Used
<1>3. backlog = <<>> /\ backlog \in Seq(Client) /\ DOMAIN backlog = {}
  BY EmptySeq, LenProperties DEF Init
<1> QED
  BY <1>2, <1>3 DEF Init, SInv, WaitingApart, EchoBack

LEMMA SInvStep == SInv /\ [Next]_vars => SInv'
<1>1. SInv /\ UNCHANGED vars => SInv'
  BY DEF SInv, vars, server, clients, WaitingApart, EchoBack, SlotsMatch
<1> QED
  BY <1>1, LoopKeeps, RecvKeeps, SendKeeps, SignalKeeps, ClientKeeps DEF Next, ServerStep

\* child_no, the slots and the open connections agree (SlotsMatch), whichever
\* call fails, whatever arrives in between: accept_loop's bookkeeping, 164-215.
THEOREM SlotsAgree == Spec => []SlotsMatch
<1>1. SInv => SlotsMatch
  BY DEF SInv
<1> QED
  BY <1>1, SInvInit, SInvStep, PTL DEF Spec

----------------------------------------------------------------------------
\* No signal cuts a blocked send short: none arrives, or no send blocks.
NoneCut == nonblocking \/ Signals = {}

LEMMA NoneCutAlways ==
  ASSUME Signals = {} \/ Platforms = {TRUE}
  PROVE  /\ Init => NoneCut
         /\ NoneCut /\ [Next]_vars => NoneCut'
<1>1. ASSUME Init PROVE NoneCut
  <2>1. nonblocking \in Platforms
    BY <1>1 DEF Init
  <2>2. CASE Platforms = {TRUE}
    <3>1. nonblocking = TRUE
      BY <2>1, <2>2
    <3> QED
      BY <3>1, Zenon DEF NoneCut
  <2> QED
    BY <2>2 DEF NoneCut
<1>2. ASSUME NoneCut, [Next]_vars PROVE NoneCut'
  BY <1>2 DEF NoneCut, Next, vars
<1> QED
  BY <1>1, <1>2

\* The server closes no connection whose client is still there (KeptWhileUp),
\* unless a signal cuts a blocked send: a drop comes of an end of file, a reset or
\* EPIPE, and the echo that meets one goes back to the client the text was read
\* from (211-214).
THEOREM KeptWithoutSignals ==
  ASSUME Signals = {} \/ Platforms = {TRUE}
  PROVE  Spec => KeptWhileUp
<1> DEFINE Kept == \A c \in open : state[c] = "up" => c \in open'
<1>1. ASSUME SInv, NoneCut, [Next]_vars
      PROVE  Kept
  <2>1. CASE LoopStep \/ UNCHANGED vars
    BY <2>1 DEF LoopStep, Test, Select, Accept, AcceptFull, AcceptFails, AcceptNone, ServeDone,
                clients, vars
  <2>2. CASE RecvStep
    <3> DEFINE i == Min(ToBeServed)
    <3>1. CASE Recv \/ (RecvEOF /\ Relay(i, <<>>))
      BY <3>1 DEF Recv, Relay
    <3>2. CASE Gone(child[i]) /\ Drop(i)
      BY <3>2 DEF Gone, Drop
    <3> QED
      BY <2>2, <3>1, <3>2 DEF RecvStep, RecvEOF, RecvError, Gone
  <2>3. CASE SendStep
    <3>1. CASE SendUnit \/ NextSend
      BY <3>1 DEF SendUnit, NextSend
    <3>2. CASE SendFails /\ pc = "echo" /\ Drop(pos)
      BY <1>1, <3>2 DEF SendFails, Peer, Drop, SInv, EchoBack
    <3> QED
      BY <2>3, <3>1, <3>2 DEF SendStep, SendDone, SendFull, SendGone, SendFails, SendError
  <2>4. ASSUME NEW c \in Client, ClientStep(c)
        PROVE  Kept
    BY <2>4 DEF ClientStep, Connect, ClientSend, ClientRead, Leave
  <2>5. CASE SignalStep
    BY <1>1, <2>5 DEF SignalStep, Signal, SelectInterrupted, SendInterrupted, NoneCut, clients
  <2> QED
    BY <1>1, <2>1, <2>2, <2>3, <2>4, <2>5 DEF Next, ServerStep
<1>2. SInv /\ NoneCut /\ [Next]_vars => [Kept]_vars
  BY <1>1
<1> QED
  BY <1>2, SInvInit, SInvStep, NoneCutAlways, PTL DEF Spec, KeptWhileUp
----------------------------------------------------------------------------
(* Types, and the limits of buffers and descriptors *)

LEMMA SeqAt ==
  ASSUME NEW S, NEW s \in Seq(S)
  PROVE  Len(s) \in Nat /\ DOMAIN s = 1..Len(s) /\ \A i \in 1..Len(s) : s[i] \in S
BY LenProperties, ElementOfSeq

LEMMA TailAt ==
  ASSUME NEW S, NEW s \in Seq(S), s # <<>>
  PROVE  /\ Len(s) \in Nat \ {0} /\ Head(s) = s[1] /\ s[1] \in S
         /\ Tail(s) \in Seq(S) /\ Len(Tail(s)) = Len(s) - 1
         /\ \A i \in 1..(Len(s) - 1) : Tail(s)[i] = s[i + 1]
<1>1. Len(s) \in Nat \ {0}
  BY EmptySeq
<1> QED
  BY <1>1, HeadTailProperties, SeqAt

LEMMA AppendAt ==
  ASSUME NEW S, NEW s \in Seq(S), NEW e \in S
  PROVE  /\ Append(s, e) \in Seq(S) /\ Len(s) \in Nat /\ Len(Append(s, e)) = Len(s) + 1
         /\ \A i \in 1..Len(s) : Append(s, e)[i] = s[i]
         /\ Append(s, e)[Len(s) + 1] = e
BY AppendProperties, SeqAt

\* strcat copies what comes before the first NUL (96-104).
LEMMA TextIsPrefix ==
  ASSUME NEW s \in Seq(Unit)
  PROVE  /\ Text(s) \in Seq(Unit) /\ Len(Text(s)) <= Len(s)
         /\ \A k \in 1..Len(Text(s)) : Text(s)[k] = s[k]
<1> DEFINE nuls == {k \in DOMAIN s : s[k].no \in Nuls}
<1>1. Len(s) \in Nat /\ DOMAIN s = 1..Len(s) /\ \A i \in 1..Len(s) : s[i] \in Unit
  BY SeqAt
<1>2. CASE nuls = {}
  BY <1>1, <1>2 DEF Text
<1>3. CASE nuls # {}
  <2> DEFINE m == Min(nuls)
  <2>1. m \in 1..Len(s)
    <3>1. nuls \in SUBSET Nat
      BY <1>1
    <3>2. m \in nuls
      BY <1>3, <3>1, FirstSlot
    <3> QED
      BY <1>1, <3>2
  <2>2. Text(s) = SubSeq(s, 1, m - 1)
    BY <1>3 DEF Text
  <2> HIDE DEF m
  <2>3. \A i \in 1..(m - 1) : s[i] \in Unit
    BY <1>1, <2>1
  <2>4. /\ SubSeq(s, 1, m - 1) \in Seq(Unit)
        /\ Len(SubSeq(s, 1, m - 1)) = IF 1 <= m - 1 THEN m - 1 - 1 + 1 ELSE 0
        /\ \A i \in 1..(m - 1 - 1 + 1) : SubSeq(s, 1, m - 1)[i] = s[1 + i - 1]
    BY <2>1, <2>3, SubSeqProperties
  <2> HIDE DEF nuls
  <2>5. Len(Text(s)) = m - 1 /\ m - 1 - 1 + 1 = m - 1
    BY <2>1, <2>2, <2>4
  <2>6. \A k \in 1..(m - 1) : Text(s)[k] = s[1 + k - 1] /\ 1 + k - 1 = k
    BY <2>1, <2>2, <2>4, <2>5
  <2> QED
    <3>1. Text(s) \in Seq(Unit)
      BY <2>2, <2>4
    <3>2. m - 1 <= Len(s)
      BY <1>1, <2>1
    <3>3. \A k \in 1..(m - 1) : Text(s)[k] = s[k]
      BY <2>6
    <3> QED
      BY <2>5, <3>1, <3>2, <3>3
<1> QED
  BY <1>2, <1>3

\* What is left of a text is its end.
Left == /\ Len(rest) <= Len(buf)
        /\ \A k \in 1..Len(rest) : rest[k] = buf[Len(buf) - Len(rest) + k]

Typed ==
    /\ pc \in {"test", "select", "accept", "serve", "echo", "cast", "ended"}
    /\ mask \subseteq Client \cup {Listen}
    /\ pos \in 0..MAX_CHILD /\ to \in 0..MAX_CHILD
    /\ buf \in Seq(Unit) /\ Len(buf) <= BufMax
    /\ rest \in Seq(Unit) /\ Left
    /\ errno \in {"EAGAIN", "other"} /\ g_got \subseteq {"stop", "other"}
    /\ nonblocking \in BOOLEAN
    /\ IsFiniteSet(open) /\ Cardinality(open) <= FdLimit
    /\ tosrv \in [Client -> Seq(Unit)] /\ tocl \in [Client -> Seq(Unit)]
    /\ got \in [Client -> Seq(Unit)] /\ sent \in [Client -> Nat]
    /\ \A c \in Client : Len(tosrv[c]) <= BufMax /\ Len(tocl[c]) <= BufMax /\ sent[c] <= MaxSent[c]
    /\ Sending => pos \in Slot /\ to \in Slot /\ child[to] # NoClient

TInv == SInv /\ Typed

LEMMA SlotIs == Slot \subseteq 0..MAX_CHILD /\ \A i \in Slot : i + 1 \in 0..MAX_CHILD
BY ServerAssumption DEF Slot

LEMMA SameTypes ==
  ASSUME TInv, UNCHANGED <<buf, rest, errno, g_got, nonblocking, open, tosrv, tocl, got, sent>>,
         pc' \in {"test", "select", "accept", "serve", "ended"},
         mask' \subseteq Client \cup {Listen}, pos' \in 0..MAX_CHILD, to' = to
  PROVE  Typed'
BY DEF TInv, Typed, Left, Sending

LEMMA AcceptTyped ==
  ASSUME TInv, Accept, UNCHANGED nonblocking
  PROVE  Typed'
<1>1. IsFiniteSet(open') /\ Cardinality(open') <= FdLimit
  <2>1. Cardinality(open) \in Nat /\ Cardinality(open) < FdLimit /\ FdLimit \in Nat
    BY ServerAssumption, FS_CardinalityType DEF TInv, Typed, Accept
  <2>2. /\ IsFiniteSet(open \cup {Head(backlog)})
        /\ Cardinality(open \cup {Head(backlog)})
             = IF Head(backlog) \in open THEN Cardinality(open) ELSE Cardinality(open) + 1
    BY FS_AddElement DEF TInv, Typed
  <2> QED
    BY <2>1, <2>2 DEF Accept
<1>2. 0 \in 0..MAX_CHILD
  BY ServerAssumption
<1> QED
  BY <1>1, <1>2 DEF TInv, Typed, Left, Sending, Accept, ToServe

LEMMA LoopTyped ==
  ASSUME TInv, LoopStep, UNCHANGED nonblocking
  PROVE  Typed'
<1>1. 0 \in 0..MAX_CHILD
  BY ServerAssumption
<1>2. CASE Test \/ Select \/ AcceptFull \/ AcceptNone \/ ServeDone
  <2>1. Readable \subseteq Client \cup {Listen}
    BY DEF Readable, TInv, SInv
  <2> QED
    BY <1>1, <1>2, <2>1, SameTypes
       DEF Test, Select, AcceptFull, AcceptNone, ServeDone, ToServe, clients, TInv, Typed
<1>3. CASE AcceptFails
  BY <1>1, <1>3 DEF AcceptFails, ToServe, clients, TInv, Typed, Left, Sending
<1> QED
  BY <1>2, <1>3, AcceptTyped DEF LoopStep

LEMMA DropTyped ==
  ASSUME TInv, NEW i \in Slot, Drop(i), UNCHANGED <<pos, tosrv, nonblocking>>,
         errno' \in {"EAGAIN", "other"}, g_got' \subseteq {"stop", "other"}
  PROVE  Typed'
<1>1. IsFiniteSet(open') /\ Cardinality(open') <= FdLimit
  BY FS_Subset, FS_CardinalityType, ServerAssumption DEF TInv, Typed, Drop
<1> QED
  BY <1>1 DEF TInv, Typed, Left, Sending, Drop

LEMMA RecvTyped ==
  ASSUME TInv, RecvStep, UNCHANGED nonblocking
  PROVE  Typed'
<1> DEFINE i == Min(ToBeServed)
<1>1. i \in Slot /\ child[i] # NoClient /\ child[i] \in Client /\ i \in 0..MAX_CHILD
  BY ServedInUse, SlotIs DEF RecvStep, Recv, RecvEOF, RecvError, TInv, SInv
<1> HIDE DEF i
<1>2. ASSUME NEW t \in Seq(Unit), Len(t) <= BufMax, Relay(i, t), UNCHANGED <<errno, g_got>>,
             tosrv' \in [Client -> Seq(Unit)], \A c \in Client : Len(tosrv'[c]) <= BufMax
      PROVE  Typed'
  <2>1. Len(t) \in Nat
    BY SeqAt
  <2>2. Left'
    <3>1. \A k \in 1..Len(t) : Len(t) - Len(t) + k = k
      BY <2>1
    <3> QED
      BY <1>2, <2>1, <3>1 DEF Left, Relay
  <2> QED
    BY <1>1, <1>2, <2>2 DEF TInv, Typed, Sending, Relay
<1>3. <<>> \in Seq(Unit) /\ Len(<<>>) <= BufMax
  BY EmptySeq, ServerAssumption
<1>4. CASE Recv
  <2> DEFINE s == tosrv[child[i]]
  <2>1. s \in Seq(Unit) /\ Len(s) <= BufMax
    BY <1>1 DEF TInv, Typed
  <2>2. Text(s) \in Seq(Unit) /\ Len(Text(s)) <= BufMax
    <3>1. Text(s) \in Seq(Unit) /\ Len(Text(s)) <= Len(s)
      BY <2>1, TextIsPrefix
    <3>2. Len(Text(s)) \in Nat /\ Len(s) \in Nat
      BY <2>1, <3>1, SeqAt
    <3> QED
      BY <2>1, <3>1, <3>2, ServerAssumption
  <2>3. /\ Relay(i, Text(s)) /\ UNCHANGED <<errno, g_got>>
        /\ tosrv' = [tosrv EXCEPT ![child[i]] = <<>>]
    BY <1>4 DEF Recv, i
  <2>4. tosrv' \in [Client -> Seq(Unit)] /\ \A c \in Client : Len(tosrv'[c]) <= BufMax
    BY <1>1, <1>3, <2>3 DEF TInv, Typed
  <2> QED
    BY <1>2, <2>2, <2>3, <2>4
<1>5. CASE RecvEOF
  <2>1. UNCHANGED <<errno, g_got, tosrv>> /\ (Relay(i, <<>>) \/ (Drop(i) /\ UNCHANGED pos))
    BY <1>5 DEF RecvEOF, i
  <2>2. CASE Relay(i, <<>>)
    BY <1>2, <1>3, <2>1, <2>2 DEF TInv, Typed
  <2> QED
    BY <1>1, <2>1, <2>2, DropTyped DEF TInv, Typed
<1>6. CASE RecvError
  BY <1>1, <1>6, DropTyped DEF RecvError, i, TInv, Typed
<1> QED
  BY <1>4, <1>5, <1>6 DEF RecvStep

LEMMA NextSendTyped ==
  ASSUME TInv, Sending, NextSend, UNCHANGED <<tocl, nonblocking>>,
         errno' \in {"EAGAIN", "other"}, g_got' \subseteq {"stop", "other"}
  PROVE  Typed'
<1> DEFINE others == {j \in Slot : child[j] # NoClient /\ j # pos /\ (pc = "cast" => j > to)}
<1>1. CASE others # {} /\ pc' = "cast" /\ to' = Min(others) /\ rest' = buf /\ pos' = pos
  <2>1. to' \in others
    BY <1>1, FirstSlot, SlotsNat
  <2>2. Left'
    <3>1. Len(buf) \in Nat /\ buf' = buf
      BY SeqAt DEF TInv, Typed, NextSend
    <3>2. \A k \in 1..Len(buf) : Len(buf) - Len(buf) + k = k
      BY <3>1
    <3> QED
      BY <1>1, <3>1, <3>2 DEF Left
  <2> QED
    BY <1>1, <2>1, <2>2, SlotIs DEF TInv, Typed, Sending, NextSend
<1>2. CASE others = {} /\ pc' = "serve" /\ pos' = pos + 1 /\ rest' = <<>> /\ to' = to
  <2>1. /\ <<>> \in Seq(Unit) /\ Len(<<>>) = 0 /\ 1..0 = {} /\ Len(buf) \in Nat
        /\ buf' = buf
    BY EmptySeq, SeqAt DEF TInv, Typed, NextSend
  <2>2. Left'
    BY <1>2, <2>1 DEF Left
  <2> QED
    BY <1>2, <2>1, <2>2, SlotIs DEF TInv, Typed, Sending, NextSend
<1> QED
  BY <1>1, <1>2 DEF NextSend

LEMMA SendErrorTyped ==
  ASSUME TInv, Sending, SendError, UNCHANGED <<tocl, nonblocking>>,
         errno' \in {"EAGAIN", "other"}, g_got' \subseteq {"stop", "other"}
  PROVE  Typed'
BY NextSendTyped, DropTyped DEF SendError, TInv, Typed

LEMMA SendTyped ==
  ASSUME TInv, SendStep, UNCHANGED nonblocking
  PROVE  Typed'
<1>1. CASE SendUnit
  <2> DEFINE u == Head(rest)
  <2>1. /\ Len(rest) \in Nat \ {0} /\ u \in Unit
        /\ rest' \in Seq(Unit) /\ Len(rest') = Len(rest) - 1
        /\ \A i \in 1..(Len(rest) - 1) : rest'[i] = rest[i + 1]
    BY <1>1, TailAt DEF SendUnit, TInv, Typed
  <2>2. Left'
    <3>1. buf' = buf /\ Len(buf) \in Nat /\ Len(rest) <= Len(buf)
      BY <1>1, SeqAt DEF SendUnit, TInv, Typed, Left
    <3> SUFFICES ASSUME NEW k \in 1..(Len(rest) - 1)
                 PROVE  rest'[k] = buf[Len(buf) - (Len(rest) - 1) + k]
      BY <2>1, <3>1 DEF Left
    <3>2. k + 1 \in 1..Len(rest)
          /\ Len(buf) - Len(rest) + (k + 1) = Len(buf) - (Len(rest) - 1) + k
      BY <2>1, <3>1
    <3>3. rest[k + 1] = buf[Len(buf) - Len(rest) + (k + 1)]
      BY <3>2 DEF TInv, Typed, Left
    <3> QED
      BY <2>1, <3>2, <3>3
  <2>3. Peer \in Client
    BY <1>1 DEF SendUnit, TInv, Typed, SInv, Peer
  <2> DEFINE q == Append(tocl[Peer], u)
  <2>4. q \in Seq(Unit) /\ Len(q) <= BufMax
    <3>1. tocl[Peer] \in Seq(Unit)
      BY <2>3 DEF TInv, Typed
    <3>2. Len(tocl[Peer]) \in Nat /\ q \in Seq(Unit) /\ Len(q) = Len(tocl[Peer]) + 1
      BY <2>1, <3>1, AppendAt
    <3>3. Len(tocl[Peer]) < BufMax /\ BufMax \in Nat
      BY <1>1, ServerAssumption DEF SendUnit, Room
    <3> QED
      BY <3>2, <3>3
  <2>5. tocl' = [tocl EXCEPT ![Peer] = q]
    BY <1>1 DEF SendUnit
  <2> HIDE DEF q, u
  <2>6. tocl' \in [Client -> Seq(Unit)] /\ \A c \in Client : Len(tocl'[c]) <= BufMax
    BY <2>3, <2>4, <2>5 DEF TInv, Typed
  <2> QED
    BY <1>1, <2>1, <2>2, <2>6 DEF SendUnit, TInv, Typed, Sending
<1>2. CASE SendDone \/ SendFull \/ SendGone
  <2>1. errno' \in {"EAGAIN", "other"}
    BY <1>2 DEF SendDone, SendFull, SendGone, TInv, Typed
  <2> QED
    BY <1>2, <2>1, NextSendTyped DEF SendDone, SendFull, SendGone, TInv, Typed
<1>3. CASE SendFails
  BY <1>3, SendErrorTyped DEF SendFails, TInv, Typed
<1> QED
  BY <1>1, <1>2, <1>3 DEF SendStep

LEMMA SignalTyped ==
  ASSUME TInv, SignalStep, UNCHANGED nonblocking
  PROVE  Typed'
<1> PICK s \in Signals : Signal(s) \/ SelectInterrupted(s) \/ SendInterrupted(s)
  BY DEF SignalStep
<1>1. g_got' \subseteq {"stop", "other"}
  BY ServerAssumption DEF Signal, SelectInterrupted, SendInterrupted, Flag, TInv, Typed
<1>2. CASE Signal(s)
  BY <1>1, <1>2 DEF Signal, clients, TInv, Typed, Left, Sending
<1>3. CASE SelectInterrupted(s)
  BY <1>1, <1>3 DEF SelectInterrupted, clients, TInv, Typed, Left, Sending
<1>4. CASE SendInterrupted(s)
  <2>1. UNCHANGED <<state, tocl>> /\ Sending /\ errno' \in {"EAGAIN", "other"}
    BY <1>4 DEF SendInterrupted, TInv, Typed
  <2> QED
    BY <1>1, <1>4, <2>1, SendErrorTyped, NextSendTyped DEF SendInterrupted
<1> QED
  BY <1>2, <1>3, <1>4

LEMMA ClientTyped ==
  ASSUME TInv, NEW c \in Client, ClientStep(c), UNCHANGED nonblocking
  PROVE  Typed'
<1>1. /\ tocl[c] \in Seq(Unit) /\ Len(tocl[c]) \in Nat /\ Len(tocl[c]) <= BufMax
      /\ tosrv[c] \in Seq(Unit) /\ got[c] \in Seq(Unit) /\ sent[c] \in Nat
  BY SeqAt DEF TInv, Typed
<1>2. CASE Connect(c)
  BY <1>2 DEF Connect, server, TInv, Typed, Left, Sending
<1>3. CASE ClientSend(c)
  <2> DEFINE u == [by |-> c, no |-> sent[c] + 1]
             q == Append(tosrv[c], u)
  <2>1. u \in Unit
    BY <1>1 DEF Unit
  <2>2. /\ sent[c] < MaxSent[c] /\ Len(tosrv[c]) < BufMax
        /\ sent' = [sent EXCEPT ![c] = sent[c] + 1] /\ tosrv' = [tosrv EXCEPT ![c] = q]
    BY <1>3 DEF ClientSend
  <2> HIDE DEF u
  <2>3. q \in Seq(Unit) /\ Len(q) = Len(tosrv[c]) + 1 /\ Len(tosrv[c]) \in Nat
    BY <1>1, <2>1, AppendAt
  <2> HIDE DEF q
  <2>4. /\ tosrv' \in [Client -> Seq(Unit)] /\ sent' \in [Client -> Nat]
        /\ \A d \in Client : Len(tosrv'[d]) <= BufMax
    BY <1>1, <2>2, <2>3, ServerAssumption DEF TInv, Typed
  <2>5. \A d \in Client : sent'[d] <= MaxSent[d]
    <3>1. sent[c] + 1 <= MaxSent[c]
      BY <1>1, <2>2, ServerAssumption
    <3> QED
      BY <2>2, <3>1 DEF TInv, Typed
  <2> QED
    BY <1>3, <2>4, <2>5 DEF ClientSend, server, TInv, Typed, Left, Sending
<1>4. CASE ClientRead(c)
  <2> DEFINE h == Append(got[c], Head(tocl[c]))
             t == Tail(tocl[c])
  <2>1. /\ tocl[c] # <<>>
        /\ got' = [got EXCEPT ![c] = h] /\ tocl' = [tocl EXCEPT ![c] = t]
    BY <1>4 DEF ClientRead
  <2>2. t \in Seq(Unit) /\ Len(t) <= BufMax /\ Head(tocl[c]) \in Unit
    <3>1. /\ Head(tocl[c]) \in Unit /\ t \in Seq(Unit) /\ Len(t) = Len(tocl[c]) - 1
      BY <1>1, <2>1, TailAt
    <3> QED
      BY <1>1, <3>1, ServerAssumption
  <2>3. h \in Seq(Unit)
    BY <1>1, <2>2, AppendAt
  <2> HIDE DEF h, t
  <2>4. /\ got' \in [Client -> Seq(Unit)] /\ tocl' \in [Client -> Seq(Unit)]
        /\ \A d \in Client : Len(tocl'[d]) <= BufMax
    BY <2>1, <2>2, <2>3 DEF TInv, Typed
  <2> QED
    BY <1>4, <2>4 DEF ClientRead, server, TInv, Typed, Left, Sending
<1>5. CASE Leave(c)
  <2>1. <<>> \in Seq(Unit) /\ Len(<<>>) <= BufMax
    BY EmptySeq, ServerAssumption
  <2>2. tocl' = [tocl EXCEPT ![c] = <<>>]
    BY <1>5 DEF Leave
  <2>3. tocl' \in [Client -> Seq(Unit)] /\ \A d \in Client : Len(tocl'[d]) <= BufMax
    BY <2>1, <2>2 DEF TInv, Typed
  <2> QED
    BY <1>5, <2>3 DEF Leave, server, TInv, Typed, Left, Sending
<1> QED
  BY <1>2, <1>3, <1>4, <1>5 DEF ClientStep

LEMMA TInvInit == Init => TInv
<1> SUFFICES ASSUME Init PROVE TInv
  OBVIOUS
<1>1. <<>> \in Seq(Unit) /\ Len(<<>>) = 0 /\ 1..0 = {}
  BY EmptySeq
<1>2. IsFiniteSet({}) /\ Cardinality({}) = 0
  BY FS_EmptySet
<1>3. Left
  BY <1>1 DEF Init, Left
<1>4. ~Sending
  BY DEF Init, Sending
<1> QED
  BY <1>1, <1>2, <1>3, <1>4, SInvInit, ServerAssumption DEF Init, TInv, Typed

LEMMA TInvStep == TInv /\ [Next]_vars => TInv'
<1>1. ASSUME TInv, UNCHANGED vars PROVE Typed'
  BY <1>1 DEF TInv, Typed, Left, Sending, vars, server, clients
<1>2. ASSUME TInv, Next PROVE Typed'
  BY <1>2, LoopTyped, RecvTyped, SendTyped, SignalTyped, ClientTyped DEF Next, ServerStep
<1> QED
  BY <1>1, <1>2, SInvStep DEF TInv

\* The end of a sequence, in the terms of its definition.
LEMMA EndIsSuffix ==
  ASSUME NEW S, NEW s \in Seq(S), NEW t \in Seq(S), Len(s) <= Len(t),
         \A k \in 1..Len(s) : s[k] = t[Len(t) - Len(s) + k]
  PROVE  IsSuffix(s, t)
<1> DEFINE m == Len(s)
           n == Len(t)
           a == [i \in 1..m |-> s[(m - i) + 1]]
           b == [i \in 1..n |-> t[(n - i) + 1]]
<1>1. /\ m \in Nat /\ n \in Nat /\ m <= n
      /\ \A i \in 1..m : s[i] \in S
      /\ \A i \in 1..n : t[i] \in S
  BY SeqAt
<1>2. Reverse(s) = a /\ Reverse(t) = b
  BY DEF Reverse
<1> HIDE DEF m, n
<1>3. a \in Seq(S) /\ b \in Seq(S)
  <2>1. \A i \in 1..m : (m - i) + 1 \in 1..m
    BY <1>1
  <2>2. \A i \in 1..n : (n - i) + 1 \in 1..n
    BY <1>1
  <2> QED
    <3>1. a \in [1..m -> S] /\ b \in [1..n -> S]
      BY <1>1, <2>1, <2>2
    <3> HIDE DEF a, b
    <3> QED
      BY <1>1, <3>1, SeqDef
<1>4. DOMAIN a = 1..m /\ DOMAIN b = 1..n
  OBVIOUS
<1>5. Len(a) = m /\ Len(b) = n
  BY <1>1, <1>3, <1>4, SeqAt
<1>6. \A i \in 1..m : a[i] = b[i]
  <2> TAKE i \in 1..m
  <2>1. (m - i) + 1 \in 1..m /\ n - m + ((m - i) + 1) = (n - i) + 1 /\ i \in 1..n
    BY <1>1
  <2>2. s[(m - i) + 1] = t[(n - i) + 1]
    BY <2>1 DEF m, n
  <2> QED
    BY <2>1, <2>2
<1> HIDE DEF a, b
<1>7. SubSeq(a, 1, m) = SubSeq(b, 1, m)
  <2>1. \A i \in 1..m : a[i] \in S /\ b[i] \in S
    BY <1>1, <1>3, <1>5, <1>6, SeqAt
  <2>2. /\ SubSeq(a, 1, m) \in Seq(S) /\ SubSeq(b, 1, m) \in Seq(S)
        /\ Len(SubSeq(a, 1, m)) = Len(SubSeq(b, 1, m))
        /\ Len(SubSeq(a, 1, m)) = IF 1 <= m THEN m - 1 + 1 ELSE 0
        /\ \A i \in 1..(m - 1 + 1) : SubSeq(a, 1, m)[i] = a[1 + i - 1]
                                     /\ SubSeq(b, 1, m)[i] = b[1 + i - 1]
    BY <1>1, <2>1, SubSeqProperties
  <2>3. Len(SubSeq(a, 1, m)) = m /\ m - 1 + 1 = m /\ \A i \in 1..m : 1 + i - 1 = i
    BY <1>1, <2>2
  <2>4. \A i \in 1..m : SubSeq(a, 1, m)[i] = SubSeq(b, 1, m)[i]
    BY <1>6, <2>2, <2>3
  <2> QED
    BY <2>2, <2>3, <2>4, SeqEqual
<1> QED
  BY <1>1, <1>2, <1>5, <1>7 DEF IsSuffix, IsPrefix

\* The server stays within its limits (TypeOK): no buffer holds more than it can,
\* what is left of a text is its end, no slot outside the table is served or sent
\* to, and no descriptor beyond what the process may have is open (164-215).
THEOREM ServerTypeCorrect == Spec => []TypeOK
<1>1. TInv => TypeOK
  <2> SUFFICES ASSUME TInv PROVE TypeOK
    OBVIOUS
  <2>1. child_no \in 0..MAX_CHILD
    <3>1. child_no = Cardinality(Used(child))
      BY DEF TInv, SInv, SlotsMatch, Used
    <3>2. Cardinality(Used(child)) \in Nat /\ Cardinality(Used(child)) <= Cardinality(Slot)
      BY UsedFinite, SlotsNat, FS_Subset, FS_CardinalityType DEF Used
    <3>3. Cardinality(Slot) = MAX_CHILD /\ MAX_CHILD \in Nat
      BY FS_Interval, ServerAssumption DEF Slot
    <3> QED
      BY <3>1, <3>2, <3>3
  <2>2. IsSuffix(rest, buf)
    BY EndIsSuffix DEF TInv, Typed, Left
  <2>3. \A c \in Client : sent[c] \in 0..MaxSent[c]
    BY ServerAssumption DEF TInv, Typed
  <2> QED
    BY <2>1, <2>2, <2>3 DEF TInv, Typed, SInv, WaitingApart, TypeOK
<1> QED
  BY <1>1, TInvInit, TInvStep, PTL DEF Spec

----------------------------------------------------------------------------
(* The conversation *)

MyType ==
    /\ pc \in {"test", "select", "accept", "serve", "echo", "cast", "ended"}
    /\ said \in Seq(Unit) /\ buf \in Seq(Unit) /\ rest \in Seq(Unit)
    /\ tosrv \in [Client -> Seq(Unit)]
    /\ tocl \in [Client -> Seq(Unit)] /\ got \in [Client -> Seq(Unit)]
    /\ sent \in [Client -> Nat] /\ place \in [Client -> Nat]

\* A client's units come in the order of their numbers: those it has sent and
\* the server has not read follow those that were said.
Numbered ==
    /\ \A k \in 1..Len(said) : said[k].no <= sent[said[k].by]
    /\ \A j, k \in 1..Len(said) : j < k /\ said[j].by = said[k].by => said[j].no < said[k].no
    /\ \A c \in Client :
        /\ \A k \in 1..Len(tosrv[c]) : tosrv[c][k].by = c /\ tosrv[c][k].no <= sent[c]
        /\ \A j, k \in 1..Len(tosrv[c]) : j < k => tosrv[c][j].no < tosrv[c][k].no
        /\ \A j \in 1..Len(said), k \in 1..Len(tosrv[c]) :
               said[j].by = c => said[j].no < tosrv[c][k].no

\* What is being sent is the end of the conversation, and comes from a
\* connection that is still in its slot.
InHand ==
    Sending =>
        /\ pos \in Slot /\ child[pos] # NoClient
        /\ to \in Slot /\ child[to] # NoClient /\ (pc = "echo" <=> to = pos)
        /\ Len(rest) <= Len(buf) /\ Len(buf) <= Len(said)
        /\ \A k \in 1..Len(buf) : /\ buf[k] = said[Len(said) - Len(buf) + k]
                                  /\ buf[k].by = child[pos]
        /\ \A k \in 1..Len(rest) : rest[k] = said[Len(said) - Len(rest) + k]

Before == Len(said) - Len(buf)      \* how much was said before what is in hand
Reached == Len(said) - Len(rest)    \* and how much of that has gone to Peer

\* Nobody has been sent more than was said, and of what is in hand nobody whose
\* turn has not come has been sent anything.
Placed ==
    /\ \A c \in Client : place[c] <= Len(said)
    /\ pc = "echo" => \A c \in Client \ {Peer} : place[c] <= Before
    /\ pc = "cast" => \A j \in Slot : j > to /\ j # pos /\ child[j] # NoClient
                                        => place[child[j]] <= Before
    /\ Sending => place[Peer] <= Reached

\* What a client has received was said, in that order, before its place.
InOrder ==
    \A c \in Client :
        /\ \A i \in 1..Len(Received(c)) : \E k \in 1..place[c] : said[k] = Received(c)[i]
        /\ \A i, j \in 1..Len(Received(c)) : \A k, l \in 1..Len(said) :
               i < j /\ said[k] = Received(c)[i] /\ said[l] = Received(c)[j] => k < l

RInv == SInv /\ MyType /\ Numbered /\ InHand /\ Placed /\ InOrder

\* Nothing comes to a client that has left or is not connected yet.
Quiet == \A c \in Client : c \notin open \/ Gone(c) => tocl[c] = <<>>

\* A server that waits: all have been sent everything, but those whose turn with
\* what is in hand has not come or is not over.
Waited ==
    ~nonblocking =>
        /\ ~Sending => \A c \in Here : place[c] = Len(said)
        /\ pc = "echo" => \A c \in Here \ {Peer} : place[c] = Before
        /\ pc = "cast" => \A j \in Slot : child[j] \in Here =>
                place[child[j]] = IF j = to THEN Reached
                                  ELSE IF j > to /\ j # pos THEN Before
                                  ELSE Len(said)
        /\ Sending /\ Peer \in Here => place[Peer] = Reached

WInv == RInv /\ Quiet /\ Waited /\ nonblocking \in BOOLEAN

----------------------------------------------------------------------------
LEMMA PlaceKept ==
  ASSUME MyType, History, Here' \subseteq Here, tocl' \in [Client -> Seq(Unit)],
         \A c \in Client : Len(tocl'[c]) <= Len(tocl[c])
  PROVE  place' = place
<1>1. \A c \in Client : Len(tocl[c]) \in Nat /\ Len(tocl'[c]) \in Nat
  BY SeqAt DEF MyType
<1>2. \A c \in Client : ~(Len(tocl'[c]) > Len(tocl[c]))
  BY <1>1
<1>3. place' = [c \in Client |-> place[c]]
  BY <1>2 DEF History
<1> QED
  BY <1>3 DEF MyType

LEMMA SaidKept ==
  ASSUME History, ~(pc = "serve" /\ pc' = "echo"), ~(pc = "echo" /\ pc' = "test")
  PROVE  said' = said
BY DEF History

LEMMA HereKept ==
  ASSUME UNCHANGED <<open, state>>
  PROVE  Here' = Here
BY DEF Here

LEMMA ReceivedIs ==
  ASSUME MyType, NEW c \in Client
  PROVE  /\ Received(c) \in Seq(Unit)
         /\ got[c] \in Seq(Unit) /\ tocl[c] \in Seq(Unit)
         /\ Len(got[c]) \in Nat /\ Len(tocl[c]) \in Nat
         /\ Len(Received(c)) = Len(got[c]) + Len(tocl[c])
         /\ \A i \in 1..(Len(got[c]) + Len(tocl[c])) :
               Received(c)[i] = IF i <= Len(got[c]) THEN got[c][i] ELSE tocl[c][i - Len(got[c])]
<1>1. got[c] \in Seq(Unit) /\ tocl[c] \in Seq(Unit)
  BY DEF MyType
<1> QED
  BY <1>1, ConcatProperties, SeqAt DEF Received

LEMMA SameNumbers ==
  ASSUME Numbered, UNCHANGED <<said, tosrv, sent>>
  PROVE  Numbered'
BY DEF Numbered

\* A client that joins or is sent something only moves on.
LEMMA PlaceGrows ==
  ASSUME MyType, InOrder, UNCHANGED <<said, tocl, got>>,
         place' \in [Client -> Nat], \A c \in Client : place[c] <= place'[c]
  PROVE  InOrder'
<1>1. \A c \in Client : place[c] \in Nat /\ place'[c] \in Nat /\ place[c] <= place'[c]
                        /\ 1..place[c] \subseteq 1..place'[c]
  BY DEF MyType
<1>2. \A c : Received(c)' = Received(c)
  BY DEF Received
<1> QED
  BY <1>1, <1>2 DEF InOrder

----------------------------------------------------------------------------
(* The steps *)

\* Between two texts nothing is said or sent; who is accepted is told nothing of
\* what was said before.
LEMMA LoopInv ==
  ASSUME RInv, LoopStep, History
  PROVE  MyType' /\ Numbered' /\ InHand' /\ Placed' /\ InOrder'
<1>1. ~Sending /\ ~Sending' /\ pc' \in {"test", "select", "accept", "serve", "ended"}
  BY DEF LoopStep, Test, Select, Accept, AcceptFull, AcceptFails, AcceptNone, ServeDone, ToServe,
         Sending
<1>2. UNCHANGED <<buf, rest, tosrv, tocl, got, sent>>
  BY DEF LoopStep, Test, Select, Accept, AcceptFull, AcceptFails, AcceptNone, ServeDone, clients
<1>3. said' = said
  BY <1>1, SaidKept DEF Sending
<1>4. /\ place' \in [Client -> Nat]
      /\ \A c \in Client : place[c] <= place'[c] /\ place'[c] <= Len(said)
  <2>1. Len(said) \in Nat
    BY SeqAt DEF RInv, MyType
  <2>2. \A c \in Client : ~(Len(tocl'[c]) > Len(tocl[c]))
    BY <1>2, SeqAt DEF RInv, MyType
  <2>3. place' = [c \in Client |-> IF c \in Here' \ Here THEN Len(said) ELSE place[c]]
    BY <2>2 DEF History
  <2> QED
    BY <2>1, <2>3 DEF RInv, MyType, Placed
<1>5. MyType'
  BY <1>1, <1>2, <1>3, <1>4 DEF RInv, MyType
<1>6. Numbered'
  BY <1>2, <1>3, SameNumbers DEF RInv
<1>7. InHand'
  BY <1>1 DEF InHand
<1>8. Placed'
  BY <1>1, <1>3, <1>4 DEF Placed, Sending
<1>9. InOrder'
  BY <1>2, <1>3, <1>4, PlaceGrows DEF RInv
<1> QED
  BY <1>5, <1>6, <1>7, <1>8, <1>9

\* A send that has returned, whatever it returned, is followed by the one to the
\* next slot in use: those whose turn has not come have nothing of the text.
LEMMA NextSendInv ==
  ASSUME RInv, Sending, NextSend, UNCHANGED <<said, place, tocl>>
  PROVE  MyType' /\ Numbered' /\ InHand' /\ Placed' /\ InOrder'
<1> DEFINE others == {j \in Slot : child[j] # NoClient /\ j # pos /\ (pc = "cast" => j > to)}
<1>1. UNCHANGED <<child, buf, sent, got, tosrv>>
  BY DEF NextSend
<1>2. Numbered' /\ InOrder'
  <2>1. \A c \in Client : place[c] <= place'[c]
    BY DEF RInv, MyType
  <2> QED
    BY <1>1, <2>1, SameNumbers, PlaceGrows DEF RInv, MyType
<1>3. CASE others = {} /\ pc' = "serve" /\ rest' = <<>>
  <2>1. MyType'
    BY <1>1, <1>3, EmptySeq DEF RInv, MyType
  <2> QED
    BY <1>2, <1>3, <2>1 DEF RInv, InHand, Placed, Sending
<1>4. CASE others # {} /\ pc' = "cast" /\ to' = Min(others) /\ rest' = buf /\ pos' = pos
  <2>1. to' \in others
    BY <1>4, FirstSlot, SlotsNat
  <2>2. MyType'
    BY <1>1, <1>4 DEF RInv, MyType
  <2>3. Len(said) \in Nat /\ Len(buf) \in Nat
    BY SeqAt DEF RInv, MyType
  <2>4. InHand'
    BY <1>1, <1>4, <2>1, <2>3 DEF RInv, InHand, Sending
  <2>5. \A j \in others : place[child[j]] <= Before
    <3>1. CASE pc = "cast"
      BY <3>1 DEF RInv, Placed
    <3>2. CASE pc = "echo"
      <4>1. \A j \in others : child[j] \in Client /\ child[j] # Peer
        BY <3>2 DEF RInv, SInv, InHand, Sending, SlotsMatch, Peer
      <4> QED
        BY <3>2, <4>1 DEF RInv, Placed
    <3> QED
      BY <3>1, <3>2 DEF Sending
  <2>6. Placed'
    <3>1. Before' = Before /\ Reached' = Before
      BY <1>1, <1>4 DEF Before, Reached
    <3>2. \A j \in Slot : j > to' /\ j # pos /\ child[j] # NoClient => j \in others
      <4>1. to \in Nat /\ to' \in Nat /\ \A j \in Slot : j \in Nat
        BY <2>1, SlotsNat DEF RInv, InHand
      <4> QED
        BY <2>1, <4>1
    <3>3. place'[Peer'] <= Reached'
      BY <1>1, <2>1, <2>5, <3>1 DEF Peer
    <3> QED
      BY <1>1, <1>4, <2>5, <3>1, <3>2, <3>3 DEF RInv, Placed, Sending
  <2> QED
    BY <1>2, <2>2, <2>4, <2>6
<1> QED
  BY <1>3, <1>4 DEF NextSend

\* What is put into a client's buffer comes after what it has received.
LEMMA ReceivedMore ==
  ASSUME NEW g \in Seq(Unit), NEW t \in Seq(Unit), NEW u \in Unit
  PROVE  g \o Append(t, u) = Append(g \o t, u)
<1>1. t \o <<u>> = Append(t, u) /\ <<u>> \in Seq(Unit)
  BY AppendIsConcat
<1>2. g \o t \in Seq(Unit)
  BY ConcatProperties
<1>3. (g \o t) \o <<u>> = Append(g \o t, u)
  BY <1>2, AppendIsConcat
<1> QED
  BY <1>1, <1>3, ConcatAssociative

\* A unit that is sent is the next of what is left of the text, and later than
\* all its receiver has.
LEMMA SendUnitInv ==
  ASSUME RInv, SendUnit, History
  PROVE  MyType' /\ Numbered' /\ InHand' /\ Placed' /\ InOrder'
<1> DEFINE p == Peer
           u == Head(rest)
           m == Len(said) - Len(rest) + 1
<1>1. UNCHANGED <<pc, child, pos, to, buf, open, state, tosrv, sent, got>> /\ Sending
  BY DEF SendUnit
<1>2. p \in Client /\ p = child[to] /\ to \in Slot
  BY <1>1 DEF RInv, SInv, InHand, Peer
<1>3. /\ rest \in Seq(Unit) /\ rest # <<>> /\ rest' = Tail(rest)
      /\ tocl' = [tocl EXCEPT ![p] = Append(@, u)]
  BY DEF SendUnit, RInv, MyType
<1>4. /\ Len(rest) \in Nat \ {0} /\ u = rest[1] /\ u \in Unit
      /\ rest' \in Seq(Unit) /\ Len(rest') = Len(rest) - 1
      /\ \A i \in 1..(Len(rest) - 1) : rest'[i] = rest[i + 1]
  BY <1>3, TailAt
<1>5. /\ Len(said) \in Nat /\ Len(buf) \in Nat /\ Len(rest) <= Len(buf) /\ Len(buf) <= Len(said)
      /\ \A k \in 1..Len(rest) : rest[k] = said[Len(said) - Len(rest) + k]
  BY <1>1, SeqAt DEF RInv, MyType, InHand
<1>6. m \in 1..Len(said) /\ u = said[m]
  BY <1>4, <1>5
<1>7. said' = said
  BY <1>1, SaidKept DEF Sending
<1>8. place' = [place EXCEPT ![p] = m]
  <2>1. \A c \in Client : tocl[c] \in Seq(Unit) /\ Len(tocl[c]) \in Nat
    BY SeqAt DEF RInv, MyType
  <2>2. Len(tocl'[p]) = Len(tocl[p]) + 1
    BY <1>2, <1>3, <1>4, <2>1, AppendAt DEF RInv, MyType
  <2>3. \A c \in Client : Len(tocl'[c]) > Len(tocl[c]) <=> c = p
    BY <1>2, <1>3, <2>1, <2>2 DEF RInv, MyType
  <2>4. Here' = Here
    BY <1>1, HereKept
  <2> HIDE DEF p
  <2>5. place' = [c \in Client |-> IF c = p THEN m ELSE place[c]]
    BY <2>3, <2>4 DEF History
  <2> QED
    BY <2>5, <1>2 DEF RInv, MyType
<1>9. place[p] \in Nat /\ place[p] < m /\ place \in [Client -> Nat]
  BY <1>1, <1>2, <1>4, <1>5 DEF RInv, MyType, Placed, Reached
<1>10. MyType'
  <2>1. tocl' \in [Client -> Seq(Unit)]
    BY <1>2, <1>3, <1>4, AppendAt DEF RInv, MyType
  <2>2. m \in Nat
    BY <1>4, <1>5
  <2> HIDE DEF m, p
  <2>3. place' \in [Client -> Nat]
    BY <1>8, <1>9, <2>2
  <2> QED
    BY <1>1, <1>4, <1>7, <2>1, <2>3 DEF RInv, MyType
<1>11. Numbered'
  BY <1>1, <1>7, SameNumbers DEF RInv
<1>12. InHand'
  <2>1. \A k \in 1..Len(rest') : rest'[k] = said[Len(said) - Len(rest') + k]
    <3> TAKE k \in 1..Len(rest')
    <3>1. k + 1 \in 1..Len(rest) /\ k \in 1..(Len(rest) - 1)
          /\ Len(said) - Len(rest) + (k + 1) = Len(said) - Len(rest') + k
      BY <1>4, <1>5
    <3>2. rest'[k] = rest[k + 1] /\ rest[k + 1] = said[Len(said) - Len(rest) + (k + 1)]
      BY <1>4, <1>5, <3>1
    <3> QED
      BY <3>1, <3>2
  <2> QED
    BY <1>1, <1>4, <1>5, <1>7, <2>1 DEF RInv, InHand, Sending
<1>13. Placed'
  <2>1. Reached' = m /\ Before' = Before /\ Peer' = p
    BY <1>1, <1>4, <1>5, <1>7 DEF Reached, Before, Peer
  <2>2. \A c \in Client : place'[c] = IF c = p THEN m ELSE place[c]
    BY <1>8, <1>9
  <2>3. \A j \in Slot : child[j] # NoClient => child[j] \in Client /\ (j # to => child[j] # p)
    BY <1>1, <1>2 DEF RInv, SInv, SlotsMatch, InHand
  <2>4. \A j \in Slot : j > to => j # to
    BY SlotsNat, <1>2
  <2> HIDE DEF p, m
  <2>5. \A c \in Client : place'[c] <= Len(said)
    BY <1>6, <2>2 DEF RInv, Placed, m
  <2>6. pc = "echo" => \A c \in Client \ {p} : place'[c] <= Before
    BY <2>2 DEF RInv, Placed, p
  <2>7. pc = "cast" => \A j \in Slot : j > to /\ j # pos /\ child[j] # NoClient
                                        => place'[child[j]] <= Before
    BY <2>2, <2>3, <2>4 DEF RInv, Placed
  <2>8. place'[p] <= m
    BY <1>2, <1>6, <2>2 DEF m
  <2> QED
    BY <1>1, <1>7, <2>1, <2>5, <2>6, <2>7, <2>8 DEF Placed, Sending
<1>14. InOrder'
  <2> DEFINE r == Received(p)
             n == Len(r)
             rn == got'[p] \o tocl'[p]
  <2>1. r \in Seq(Unit) /\ rn = Append(r, u)
    <3>1. got[p] \in Seq(Unit) /\ tocl[p] \in Seq(Unit) /\ got'[p] = got[p]
          /\ tocl'[p] = Append(tocl[p], u)
      BY <1>1, <1>2, <1>3 DEF RInv, MyType
    <3> HIDE DEF p, u
    <3>2. got[p] \o Append(tocl[p], u) = Append(got[p] \o tocl[p], u)
          /\ got[p] \o tocl[p] \in Seq(Unit)
      BY <1>4, <3>1, ReceivedMore, ConcatProperties
    <3> QED
      BY <3>1, <3>2 DEF Received
  <2>2. /\ n \in Nat /\ Len(rn) = n + 1
        /\ \A i \in 1..n : rn[i] = r[i]
        /\ rn[n + 1] = u
    BY <1>4, <2>1, AppendAt
  <2>3. /\ \A i \in 1..n : \E k \in 1..place[p] : said[k] = r[i]
        /\ \A i, j \in 1..n : \A k, l \in 1..Len(said) :
             i < j /\ said[k] = r[i] /\ said[l] = r[j] => k < l
    BY <1>2 DEF RInv, InOrder
  <2>4. \A j, k \in 1..Len(said) : said[j] = said[k] => j = k
    <3>1. \A j \in 1..Len(said) : said[j] \in Unit
      BY SeqAt DEF RInv, MyType
    <3> SUFFICES ASSUME NEW j \in 1..Len(said), NEW k \in 1..Len(said), said[j] = said[k], j < k
                 PROVE  FALSE
      BY <1>5
    <3>2. said[j].no < said[k].no /\ said[j].no \in Nat
      BY <3>1 DEF RInv, Numbered, Unit
    <3> QED
      BY <3>2
  <2>5. \A c \in Client \ {p} : Received(c)' = Received(c) /\ place'[c] = place[c]
    BY <1>1, <1>3, <1>8, <1>9 DEF Received, RInv, MyType
  <2>6. place'[p] = m
    BY <1>2, <1>8, <1>9
  <2> HIDE DEF p, u, m, r, n, rn
  <2>7. \A i \in 1..(n + 1) : \E k \in 1..m : said[k] = rn[i]
    <3> TAKE i \in 1..(n + 1)
    <3>1. CASE i = n + 1
      BY <1>6, <2>2, <3>1
    <3>2. CASE i # n + 1
      <4>1. i \in 1..n
        BY <2>2, <3>2
      <4>2. PICK k \in 1..place[p] : said[k] = r[i]
        BY <2>3, <4>1
      <4>3. k \in 1..m
        BY <1>6, <1>9
      <4> QED
        BY <2>2, <4>1, <4>2, <4>3
    <3> QED
      BY <3>1, <3>2
  <2>8. \A i, j \in 1..(n + 1) : \A k, l \in 1..Len(said) :
           i < j /\ said[k] = rn[i] /\ said[l] = rn[j] => k < l
    <3> TAKE i, j \in 1..(n + 1)
    <3> TAKE k, l \in 1..Len(said)
    <3> HAVE i < j /\ said[k] = rn[i] /\ said[l] = rn[j]
    <3>1. i \in 1..n /\ rn[i] = r[i]
      BY <2>2
    <3>2. CASE j = n + 1
      <4>1. l = m
        BY <1>6, <2>2, <2>4, <3>2
      <4>2. PICK q \in 1..place[p] : said[q] = r[i]
        BY <2>3, <3>1
      <4>3. q \in 1..Len(said) /\ q < m
        BY <1>5, <1>6, <1>9
      <4>4. k = q
        BY <2>4, <3>1, <4>2, <4>3
      <4> QED
        BY <4>1, <4>3, <4>4
    <3>3. CASE j # n + 1
      BY <2>2, <2>3, <3>1, <3>3
    <3> QED
      BY <3>2, <3>3
  <2>9. /\ \A i \in 1..Len(rn) : \E k \in 1..place'[p] : said'[k] = rn[i]
        /\ \A i, j \in 1..Len(rn) : \A k, l \in 1..Len(said') :
             i < j /\ said'[k] = rn[i] /\ said'[l] = rn[j] => k < l
    BY <1>7, <2>2, <2>6, <2>7, <2>8
  <2>10. ASSUME NEW c \in Client, c # p
         PROVE  /\ \A i \in 1..Len(Received(c)') : \E k \in 1..place'[c] : said'[k] = Received(c)'[i]
                /\ \A i, j \in 1..Len(Received(c)') : \A k, l \in 1..Len(said') :
                     i < j /\ said'[k] = Received(c)'[i] /\ said'[l] = Received(c)'[j] => k < l
    BY <1>7, <2>5, <2>10 DEF RInv, InOrder
  <2>11. \A c \in Client : Received(c)' = IF c = p THEN rn ELSE Received(c)'
    BY DEF Received, rn
  <2> QED
    <3> SUFFICES ASSUME NEW c \in Client
                 PROVE  /\ \A i \in 1..Len(Received(c)') : \E k \in 1..place'[c] : said'[k] = Received(c)'[i]
                        /\ \A i, j \in 1..Len(Received(c)') : \A k, l \in 1..Len(said') :
                             i < j /\ said'[k] = Received(c)'[i] /\ said'[l] = Received(c)'[j] => k < l
      BY DEF InOrder
    <3>1. CASE c = p
      <4>1. Received(c)' = rn /\ place'[c] = place'[p]
        BY <2>11, <3>1
      <4> QED
        BY <2>9, <4>1
    <3>2. CASE c # p
      BY <2>10, <3>2
    <3> QED
      BY <3>1, <3>2
<1> QED
  BY <1>10, <1>11, <1>12, <1>13, <1>14

\* Nothing is said twice.
LEMMA SaidOnce ==
  ASSUME NEW sd \in Seq(Unit),
         \A j, k \in 1..Len(sd) : j < k /\ sd[j].by = sd[k].by => sd[j].no < sd[k].no
  PROVE  \A j, k \in 1..Len(sd) : sd[j] = sd[k] => j = k
<1>1. Len(sd) \in Nat /\ \A j \in 1..Len(sd) : sd[j] \in Unit
  BY SeqAt
<1> SUFFICES ASSUME NEW j \in 1..Len(sd), NEW k \in 1..Len(sd), sd[j] = sd[k], j < k
             PROVE  FALSE
  BY <1>1
<1>2. sd[j].no < sd[k].no /\ sd[j].no \in Nat
  BY <1>1 DEF Unit
<1> QED
  BY <1>2

\* A conversation that grows, or loses what nobody has, is to everybody the same.
LEMMA SaidChanges ==
  ASSUME MyType, InOrder, UNCHANGED <<got, tocl, place>>, said' \in Seq(Unit),
         \A c \in Client : place[c] <= Len(said) /\ place[c] <= Len(said'),
         \A k \in 1..Len(said) : k <= Len(said') => said'[k] = said[k],
         \A j, k \in 1..Len(said') : said'[j] = said'[k] => j = k
  PROVE  InOrder'
<1>1. /\ Len(said) \in Nat /\ Len(said') \in Nat
      /\ \A c \in Client : place[c] \in Nat /\ Received(c)' = Received(c)
  BY SeqAt DEF MyType, Received
<1>2. ASSUME NEW c \in Client, NEW i \in 1..Len(Received(c))
      PROVE  \E k \in 1..place[c] : said[k] = Received(c)[i] /\ said'[k] = said[k]
                                    /\ k \in 1..Len(said) /\ k \in 1..Len(said')
  <2>1. PICK k \in 1..place[c] : said[k] = Received(c)[i]
    BY DEF InOrder
  <2>2. k \in 1..Len(said) /\ k \in 1..Len(said') /\ k <= Len(said')
    BY <1>1
  <2> QED
    BY <2>1, <2>2
<1> SUFFICES ASSUME NEW c \in Client
             PROVE  /\ \A i \in 1..Len(Received(c)') : \E k \in 1..place'[c] : said'[k] = Received(c)'[i]
                    /\ \A i, j \in 1..Len(Received(c)') : \A k, l \in 1..Len(said') :
                         i < j /\ said'[k] = Received(c)'[i] /\ said'[l] = Received(c)'[j] => k < l
  BY DEF InOrder
<1>3. \A i \in 1..Len(Received(c)) : \E k \in 1..place[c] : said'[k] = Received(c)[i]
  BY <1>2
<1>4. ASSUME NEW i \in 1..Len(Received(c)), NEW j \in 1..Len(Received(c)),
             NEW k \in 1..Len(said'), NEW l \in 1..Len(said'),
             i < j, said'[k] = Received(c)[i], said'[l] = Received(c)[j]
      PROVE  k < l
  <2>1. said[k] = Received(c)[i] /\ k \in 1..Len(said)
    BY <1>2, <1>4
  <2>2. said[l] = Received(c)[j] /\ l \in 1..Len(said)
    BY <1>2, <1>4
  <2> QED
    BY <1>4, <2>1, <2>2 DEF InOrder
<1>5. Received(c)' = Received(c) /\ place'[c] = place[c]
  BY <1>1
<1>6. \A i \in 1..Len(Received(c)') : \E k \in 1..place'[c] : said'[k] = Received(c)'[i]
  BY <1>3, <1>5
<1>7. \A i, j \in 1..Len(Received(c)) : \A k, l \in 1..Len(said') :
         i < j /\ said'[k] = Received(c)[i] /\ said'[l] = Received(c)[j] => k < l
  BY <1>4
<1>8. \A i, j \in 1..Len(Received(c)') : \A k, l \in 1..Len(said') :
         i < j /\ said'[k] = Received(c)'[i] /\ said'[l] = Received(c)'[j] => k < l
  BY <1>5, <1>7
<1> QED
  BY <1>6, <1>8

\* The text that is read becomes the end of the conversation.
LEMMA RelayInv ==
  ASSUME RInv, History, pc = "serve", NEW i \in Slot, child[i] # NoClient,
         NEW t \in Seq(Unit), Relay(i, t), Len(t) <= Len(tosrv[child[i]]),
         \A k \in 1..Len(t) : t[k] = tosrv[child[i]][k],
         tosrv' = [tosrv EXCEPT ![child[i]] = <<>>], state' = state
  PROVE  /\ MyType' /\ Numbered' /\ InHand' /\ Placed' /\ InOrder'
         /\ said' = said \o t /\ place' = place
<1> DEFINE c == child[i]
           L == Len(said)
<1>1. c \in Client
  BY DEF RInv, SInv
<1>2. UNCHANGED <<child, open, tocl, sent, got>> /\ pc' = "echo" /\ pos' = i /\ to' = i
      /\ buf' = t /\ rest' = t
  BY DEF Relay
<1>3. said' = said \o t
  BY <1>2 DEF History
<1>4. place' = place
  <2>1. \A d \in Client : Len(tocl[d]) \in Nat /\ tocl' = tocl
    BY <1>2, SeqAt DEF RInv, MyType
  <2> QED
    BY <1>2, <2>1, HereKept, PlaceKept DEF RInv, MyType
<1>5. /\ L \in Nat /\ Len(t) \in Nat /\ said' \in Seq(Unit) /\ Len(said') = L + Len(t)
      /\ \A k \in 1..L : said'[k] = said[k] /\ said[k] \in Unit
      /\ \A k \in 1..Len(t) : said'[L + k] = t[k]
  <2>1. said \in Seq(Unit) /\ L \in Nat /\ Len(t) \in Nat /\ \A k \in 1..L : said[k] \in Unit
    BY SeqAt DEF RInv, MyType
  <2>2. /\ said' \in Seq(Unit) /\ Len(said') = L + Len(t)
        /\ \A k \in 1..(L + Len(t)) : said'[k] = IF k <= L THEN said[k] ELSE t[k - L]
    BY <1>3, <2>1, ConcatProperties
  <2>3. \A k \in 1..L : k \in 1..(L + Len(t)) /\ k <= L
    BY <2>1
  <2>4. \A k \in 1..Len(t) : L + k \in 1..(L + Len(t)) /\ ~(L + k <= L) /\ L + k - L = k
    BY <2>1
  <2> QED
    BY <2>1, <2>2, <2>3, <2>4
<1>6. /\ tosrv[c] \in Seq(Unit) /\ Len(tosrv[c]) \in Nat
      /\ \A k \in 1..Len(t) : /\ k \in 1..Len(tosrv[c])
                              /\ t[k].by = c /\ t[k].no <= sent[c]
                              /\ \A j \in 1..L : said[j].by = c => said[j].no < t[k].no
                              /\ \A j \in 1..Len(t) : j < k => t[j].no < t[k].no
  <2>1. tosrv[c] \in Seq(Unit) /\ Len(tosrv[c]) \in Nat
    BY <1>1, SeqAt DEF RInv, MyType
  <2>2. \A k \in 1..Len(t) : k \in 1..Len(tosrv[c]) /\ t[k] = tosrv[c][k]
    BY <1>5, <2>1
  <2> HIDE DEF c, L
  <2>3. /\ \A k \in 1..Len(tosrv[c]) : tosrv[c][k].by = c /\ tosrv[c][k].no <= sent[c]
        /\ \A j, k \in 1..Len(tosrv[c]) : j < k => tosrv[c][j].no < tosrv[c][k].no
        /\ \A j \in 1..L, k \in 1..Len(tosrv[c]) : said[j].by = c => said[j].no < tosrv[c][k].no
    BY <1>1 DEF RInv, Numbered, L
  <2> QED
    BY <2>1, <2>2, <2>3
<1> HIDE DEF L
<1>7. MyType'
  <2>1. tosrv' \in [Client -> Seq(Unit)]
    BY <1>1, EmptySeq DEF RInv, MyType
  <2> QED
    BY <1>2, <1>4, <1>5, <2>1 DEF RInv, MyType
\* The new positions.
<1>8. \A k \in 1..Len(said') : \/ k \in 1..L /\ said'[k] = said[k]
                               \/ k > L /\ k - L \in 1..Len(t) /\ said'[k] = t[k - L]
  <2> TAKE k \in 1..Len(said')
  <2>1. CASE k <= L
    BY <1>5, <2>1
  <2>2. CASE k > L
    <3>1. k - L \in 1..Len(t) /\ L + (k - L) = k
      BY <1>5, <2>2
    <3> QED
      BY <1>5, <2>2, <3>1
  <2> QED
    BY <1>5, <2>1, <2>2
<1> HIDE DEF c
<1>9. \A k \in 1..Len(said') : said'[k].no <= sent[said'[k].by]
  <2> TAKE k \in 1..Len(said')
  <2>1. CASE k \in 1..L /\ said'[k] = said[k]
    BY <2>1 DEF RInv, Numbered, L
  <2>2. CASE k - L \in 1..Len(t) /\ said'[k] = t[k - L]
    BY <1>6, <2>2
  <2> QED
    BY <1>8, <2>1, <2>2
<1>10. \A j, k \in 1..Len(said') : j < k /\ said'[j].by = said'[k].by => said'[j].no < said'[k].no
  <2> TAKE j, k \in 1..Len(said')
  <2> HAVE j < k /\ said'[j].by = said'[k].by
  <2>1. CASE k \in 1..L /\ said'[k] = said[k]
    <3>1. j \in 1..L /\ said'[j] = said[j]
      BY <1>5, <2>1
    <3> QED
      BY <2>1, <3>1 DEF RInv, Numbered, L
  <2>2. CASE k > L /\ k - L \in 1..Len(t) /\ said'[k] = t[k - L]
    <3>1. CASE j \in 1..L /\ said'[j] = said[j]
      BY <1>6, <2>2, <3>1
    <3>2. CASE j > L /\ j - L \in 1..Len(t) /\ said'[j] = t[j - L]
      <4>1. j - L < k - L
        BY <1>5
      <4> QED
        BY <1>6, <2>2, <3>2, <4>1
    <3> QED
      BY <1>8, <3>1, <3>2
  <2> QED
    BY <1>8, <2>1, <2>2
<1>11. Numbered'
  <2> SUFFICES ASSUME NEW d \in Client
               PROVE /\ \A k \in 1..Len(tosrv'[d]) : tosrv'[d][k].by = d /\ tosrv'[d][k].no <= sent[d]
                     /\ \A j, k \in 1..Len(tosrv'[d]) : j < k => tosrv'[d][j].no < tosrv'[d][k].no
                     /\ \A j \in 1..Len(said'), k \in 1..Len(tosrv'[d]) :
                            said'[j].by = d => said'[j].no < tosrv'[d][k].no
    BY <1>2, <1>9, <1>10 DEF Numbered
  <2>1. CASE d = c
    <3>1. tosrv'[d] = <<>> /\ Len(tosrv'[d]) = 0
      BY <2>1, EmptySeq DEF RInv, MyType, c
    <3>2. 1..Len(tosrv'[d]) = {}
      BY <3>1
    <3> QED
      BY <3>2
  <2>2. CASE d # c
    <3>1. tosrv'[d] = tosrv[d]
      BY <2>2 DEF RInv, MyType, c
    <3>2. \A j \in 1..Len(said') : said'[j].by = d => j \in 1..L /\ said'[j] = said[j]
      BY <1>6, <1>8, <2>2
    <3> QED
      BY <3>1, <3>2 DEF RInv, Numbered, L
  <2> QED
    BY <2>1, <2>2
<1>12. InHand'
  <2>1. \A k \in 1..Len(t) : t[k] = said'[Len(said') - Len(t) + k]
    <3> TAKE k \in 1..Len(t)
    <3>1. Len(said') - Len(t) + k = L + k
      BY <1>5
    <3> QED
      BY <1>5, <3>1
  <2>2. Len(t) <= Len(said')
    BY <1>5
  <2>3. Len(t) <= Len(t)
    BY <1>5
  <2>4. \A k \in 1..Len(t) : t[k].by = child[i]
    BY <1>6 DEF c
  <2> QED
    <3>1. pos' \in Slot /\ child'[pos'] = child[i] /\ to' = pos' /\ child[i] # NoClient
      BY <1>2
    <3>2. /\ Len(rest') <= Len(buf') /\ Len(buf') <= Len(said')
          /\ \A k \in 1..Len(buf') : buf'[k] = said'[Len(said') - Len(buf') + k]
                                     /\ buf'[k].by = child[i]
          /\ \A k \in 1..Len(rest') : rest'[k] = said'[Len(said') - Len(rest') + k]
      BY <1>2, <2>1, <2>2, <2>3, <2>4
    <3>3. pc' = "echo"
      BY <1>2
    <3> QED
      BY <3>1, <3>2, <3>3 DEF InHand, Sending
<1>13. Placed'
  <2>1. \A d \in Client : place[d] \in Nat /\ place[d] <= L
    BY DEF RInv, MyType, Placed, L
  <2>2. L <= Len(said') /\ Before' = L /\ Reached' = L /\ Peer' = c
    BY <1>2, <1>5 DEF Before, Reached, Peer, c
  <2>3. pc' # "cast"
    BY <1>2
  <2>4. \A d \in Client : place'[d] <= Len(said') /\ place'[d] <= L
    BY <1>4, <1>5, <2>1
  <2> QED
    BY <1>1, <2>2, <2>3, <2>4 DEF Placed
<1>14. InOrder'
  <2>1. \A d \in Client : place[d] \in Nat /\ place[d] <= Len(said)
    BY DEF RInv, MyType, Placed
  <2>2. \A d \in Client : place[d] <= Len(said')
    BY <1>5, <2>1 DEF L
  <2>3. \A j, k \in 1..Len(said') : said'[j] = said'[k] => j = k
    BY <1>5, <1>10, SaidOnce
  <2>4. \A k \in 1..Len(said) : said'[k] = said[k]
    BY <1>5 DEF L
  <2> QED
    BY <1>2, <1>4, <1>5, <2>1, <2>2, <2>3, <2>4, SaidChanges DEF RInv
<1> QED
  BY <1>3, <1>4, <1>7, <1>11, <1>12, <1>13, <1>14

LEMMA RecvIs ==
  ASSUME RInv, Recv, History
  PROVE  LET i == Min(ToBeServed) IN
         /\ i \in Slot /\ child[i] # NoClient /\ child[i] \in Client
         /\ Text(tosrv[child[i]]) \in Seq(Unit) /\ Relay(i, Text(tosrv[child[i]]))
         /\ MyType' /\ Numbered' /\ InHand' /\ Placed' /\ InOrder'
         /\ said' = said \o Text(tosrv[child[i]]) /\ place' = place
<1> DEFINE i == Min(ToBeServed)
           t == Text(tosrv[child[i]])
<1>1. i \in Slot /\ child[i] # NoClient
  BY ServedInUse DEF Recv
<1>2. child[i] \in Client
  BY <1>1 DEF RInv, SInv
<1>3. /\ Relay(i, t) /\ pc = "serve" /\ state' = state
      /\ tosrv' = [tosrv EXCEPT ![child[i]] = <<>>]
  BY DEF Recv
<1> HIDE DEF i
<1>4. tosrv[child[i]] \in Seq(Unit)
  BY <1>2 DEF RInv, MyType
<1>5. t \in Seq(Unit) /\ Len(t) <= Len(tosrv[child[i]])
      /\ \A k \in 1..Len(t) : t[k] = tosrv[child[i]][k]
  BY <1>4, TextIsPrefix
<1> HIDE DEF t
<1>6. /\ MyType' /\ Numbered' /\ InHand' /\ Placed' /\ InOrder'
      /\ said' = said \o t /\ place' = place
  BY <1>1, <1>3, <1>5, RelayInv
<1> QED
  BY <1>1, <1>2, <1>3, <1>5, <1>6 DEF i, t

\* An end of file that is not seen relays nothing.
LEMMA EmptyRelay ==
  ASSUME RInv, History, pc = "serve", NEW i \in Slot, child[i] # NoClient,
         Relay(i, <<>>), tosrv[child[i]] = <<>>, UNCHANGED <<tosrv, state>>
  PROVE  /\ MyType' /\ Numbered' /\ InHand' /\ Placed' /\ InOrder'
         /\ said' = said /\ place' = place
<1>1. <<>> \in Seq(Unit) /\ Len(<<>>) = 0
  BY EmptySeq
<1>2. tosrv' = [tosrv EXCEPT ![child[i]] = <<>>]
  BY DEF RInv, MyType
<1>3. Len(<<>>) <= Len(tosrv[child[i]]) /\ \A k \in 1..Len(<<>>) : <<>>[k] = tosrv[child[i]][k]
  BY <1>1
<1>4. /\ MyType' /\ Numbered' /\ InHand' /\ Placed' /\ InOrder'
      /\ said' = said \o <<>> /\ place' = place
  BY <1>1, <1>2, <1>3, RelayInv
<1> QED
  BY <1>4, ConcatEmptySeq DEF RInv, MyType

\* A connection is closed between two texts.
LEMMA DropInv ==
  ASSUME RInv, History, pc = "serve", NEW i \in Slot, Drop(i), UNCHANGED <<tosrv, state>>
  PROVE  /\ MyType' /\ Numbered' /\ InHand' /\ Placed' /\ InOrder'
         /\ said' = said /\ place' = place
<1>1. UNCHANGED <<buf, rest, tocl, sent, got, tosrv>> /\ pc' = "test"
  BY DEF Drop
<1>2. said' = said
  BY <1>1, SaidKept
<1>3. place' = place
  <2>1. Here' \subseteq Here
    BY DEF Drop, Here
  <2>2. \A c \in Client : Len(tocl[c]) \in Nat
    BY SeqAt DEF RInv, MyType
  <2> QED
    BY <1>1, <2>1, <2>2, PlaceKept DEF RInv, MyType
<1>4. MyType'
  BY <1>1, <1>2, <1>3 DEF RInv, MyType
<1>5. Numbered'
  BY <1>1, <1>2, SameNumbers DEF RInv
<1>6. InHand' /\ Placed'
  BY <1>1, <1>2, <1>3 DEF RInv, InHand, Placed, Sending
<1>7. InOrder'
  <2>1. \A c \in Client : place[c] <= place'[c]
    BY <1>3 DEF RInv, MyType
  <2> QED
    BY <1>1, <1>2, <1>3, <2>1, PlaceGrows DEF RInv, MyType
<1> QED
  BY <1>2, <1>3, <1>4, <1>5, <1>6, <1>7

\* The echo fails: its text, which nobody has been sent, is not said after all.
LEMMA WithdrawInv ==
  ASSUME RInv, History, pc = "echo", rest = buf, Drop(pos), UNCHANGED <<tosrv, state>>
  PROVE  /\ MyType' /\ Numbered' /\ InHand' /\ Placed' /\ InOrder'
         /\ said' = SubSeq(said, 1, Before) /\ place' = place
         /\ Before \in Nat /\ Len(said') = Before
         /\ \A c \in Client : place[c] <= Before
<1>1. UNCHANGED <<buf, rest, tocl, sent, got, tosrv>> /\ pc' = "test"
  BY DEF Drop
<1>2. place' = place
  <2>1. Here' \subseteq Here
    BY DEF Drop, Here
  <2>2. \A c \in Client : Len(tocl[c]) \in Nat
    BY SeqAt DEF RInv, MyType
  <2> QED
    BY <1>1, <2>1, <2>2, PlaceKept DEF RInv, MyType
<1>3. \A c \in Client : place[c] <= Before /\ place[c] <= Len(said) /\ place[c] \in Nat
  BY DEF RInv, MyType, Placed, Sending, Before, Reached
<1>4. /\ Len(said) \in Nat /\ Len(buf) \in Nat /\ Before \in 0..Len(said)
      /\ \A k \in 1..Len(said) : said[k] \in Unit
  BY SeqAt DEF RInv, MyType, InHand, Sending, Before
<1>5. said' = SubSeq(said, 1, Before)
  BY <1>1 DEF History, Before
<1>6. /\ said' \in Seq(Unit) /\ Len(said') = Before
      /\ \A k \in 1..Before : said'[k] = said[k]
  <2> DEFINE n == Before
  <2> HIDE DEF n
  <2>1. n \in 0..Len(said) /\ \A k \in 1..n : said[k] \in Unit
    BY <1>4 DEF n
  <2>2. /\ SubSeq(said, 1, n) \in Seq(Unit)
        /\ Len(SubSeq(said, 1, n)) = IF 1 <= n THEN n - 1 + 1 ELSE 0
        /\ \A i \in 1..(n - 1 + 1) : SubSeq(said, 1, n)[i] = said[1 + i - 1]
    BY <1>4, <2>1, SubSeqProperties
  <2>3. Len(SubSeq(said, 1, n)) = n /\ n - 1 + 1 = n
    BY <1>4, <2>1, <2>2
  <2>4. \A i \in 1..n : 1 + i - 1 = i
    BY <1>4, <2>1
  <2>5. \A i \in 1..n : SubSeq(said, 1, n)[i] = said[i]
    BY <2>2, <2>3, <2>4
  <2> QED
    BY <1>5, <2>2, <2>3, <2>5 DEF n
<1>7. MyType'
  BY <1>1, <1>2, <1>6 DEF RInv, MyType
<1>8. \A k \in 1..Len(said') : k \in 1..Len(said) /\ said'[k] = said[k]
  BY <1>4, <1>6
<1>9. Numbered'
  BY <1>1, <1>8 DEF RInv, Numbered
<1>10. InHand' /\ Placed'
  BY <1>1, <1>2, <1>3, <1>6 DEF InHand, Placed, Sending
<1>11. InOrder'
  <2>1. \A j, k \in 1..Len(said') : said'[j] = said'[k] => j = k
    BY <1>6, <1>9, SaidOnce DEF Numbered
  <2>2. \A k \in 1..Len(said) : k <= Len(said') => said'[k] = said[k]
    BY <1>4, <1>6
  <2> QED
    BY <1>1, <1>2, <1>3, <1>6, <2>1, <2>2, SaidChanges DEF RInv
<1> QED
  BY <1>2, <1>3, <1>4, <1>5, <1>6, <1>7, <1>9, <1>10, <1>11

LEMMA RecvInv ==
  ASSUME RInv, RecvStep, History
  PROVE  MyType' /\ Numbered' /\ InHand' /\ Placed' /\ InOrder'
<1> DEFINE i == Min(ToBeServed)
<1>1. i \in Slot /\ child[i] # NoClient /\ pc = "serve"
  BY ServedInUse DEF RecvStep, Recv, RecvEOF, RecvError
<1>2. CASE Recv
  BY <1>2, RecvIs
<1>3. CASE RecvEOF /\ Relay(i, <<>>)
  BY <1>1, <1>3, EmptyRelay DEF RecvEOF
<1>4. CASE (RecvEOF \/ RecvError) /\ Drop(i)
  BY <1>1, <1>4, DropInv DEF RecvEOF, RecvError
<1> QED
  BY <1>2, <1>3, <1>4 DEF RecvStep, RecvEOF, RecvError

\* NextSend goes on with the same text and leaves the places alone.
LEMMA NextSendIs ==
  ASSUME RInv, History, Sending, NextSend, UNCHANGED tocl,
         \A c \in Client : state'[c] = "up" <=> state[c] = "up"
  PROVE  said' = said /\ place' = place
<1>1. open' = open /\ pc' # "test" /\ ~(pc = "serve")
  BY DEF NextSend, Sending
<1>2. Here' \subseteq Here
  BY <1>1 DEF Here, RInv, SInv
<1>3. \A c \in Client : Len(tocl[c]) \in Nat
  BY SeqAt DEF RInv, MyType
<1>4. place' = place
  BY <1>2, <1>3, PlaceKept DEF RInv, MyType
<1> QED
  BY <1>1, <1>4, SaidKept

\* The ends of a send: NextSend, or the echo that drops its connection.
LEMMA SendEnds ==
  ASSUME RInv, SendStep, ~SendUnit
  PROVE  \/ /\ Sending /\ NextSend /\ UNCHANGED tocl
            /\ \A c \in Client : state'[c] = "up" <=> state[c] = "up"
         \/ /\ pc = "echo" /\ rest = buf /\ Drop(pos) /\ UNCHANGED <<tosrv, state>>
            /\ state[Peer] = "reset"
<1>1. CASE SendDone \/ SendFull
  BY <1>1 DEF SendDone, SendFull
<1>2. CASE SendGone
  BY <1>2 DEF SendGone, RInv, SInv
<1>3. CASE SendFails
  BY <1>3 DEF SendFails, SendError
<1> QED
  BY <1>1, <1>2, <1>3 DEF SendStep

LEMMA SendInv ==
  ASSUME RInv, SendStep, History
  PROVE  MyType' /\ Numbered' /\ InHand' /\ Placed' /\ InOrder'
BY SendUnitInv, SendEnds, NextSendIs, NextSendInv, WithdrawInv

\* A step that touches neither the conversation nor a connection.
LEMMA StillInv ==
  ASSUME RInv, History,
         UNCHANGED <<pc, child, pos, to, buf, rest, open, state, tosrv, tocl, sent, got>>
  PROVE  /\ MyType' /\ Numbered' /\ InHand' /\ Placed' /\ InOrder'
         /\ said' = said /\ place' = place
<1>1. said' = said
  BY SaidKept
<1>2. \A c \in Client : Len(tocl[c]) \in Nat
  BY SeqAt DEF RInv, MyType
<1>3. place' = place
  BY <1>2, HereKept, PlaceKept DEF RInv, MyType
<1>4. MyType' /\ Numbered'
  BY <1>1, <1>3, SameNumbers DEF RInv, MyType
<1>5. InHand' /\ Placed'
  BY <1>1, <1>3 DEF RInv, InHand, Placed, Sending, Before, Reached, Peer
<1>6. InOrder'
  <2>1. \A c \in Client : place[c] <= place'[c]
    BY <1>3 DEF RInv, MyType
  <2> QED
    BY <1>1, <1>3, <2>1, PlaceGrows DEF RInv, MyType
<1> QED
  BY <1>1, <1>3, <1>4, <1>5, <1>6

LEMMA SignalInv ==
  ASSUME RInv, SignalStep, History
  PROVE  MyType' /\ Numbered' /\ InHand' /\ Placed' /\ InOrder'
<1> PICK s \in Signals : Signal(s) \/ SelectInterrupted(s) \/ SendInterrupted(s)
  BY DEF SignalStep
<1>1. CASE Signal(s)
  BY <1>1, StillInv DEF Signal, clients
<1>2. CASE SelectInterrupted(s)
  <2>1. UNCHANGED <<buf, rest, open, state, tosrv, tocl, sent, got>> /\ pc = "select" /\ pc' = "test"
    BY <1>2 DEF SelectInterrupted, clients
  <2>2. said' = said
    BY <2>1, SaidKept
  <2>3. \A c \in Client : Len(tocl[c]) \in Nat
    BY SeqAt DEF RInv, MyType
  <2>4. place' = place
    BY <2>1, <2>3, HereKept, PlaceKept DEF RInv, MyType
  <2>5. \A c \in Client : place[c] <= place'[c]
    BY <2>4 DEF RInv, MyType
  <2>6. MyType' /\ Numbered' /\ InOrder'
    BY <2>1, <2>2, <2>4, <2>5, SameNumbers, PlaceGrows DEF RInv, MyType
  <2> QED
    BY <2>1, <2>2, <2>4, <2>6 DEF RInv, InHand, Placed, Sending
<1>3. CASE SendInterrupted(s)
  <2>1. CASE NextSend
    <3>1. Sending /\ UNCHANGED tocl /\ state' = state
      BY <1>3 DEF SendInterrupted
    <3>2. said' = said /\ place' = place
      BY <2>1, <3>1, NextSendIs
    <3> QED
      BY <2>1, <3>1, <3>2, NextSendInv
  <2>2. CASE pc = "echo" /\ rest = buf /\ Drop(pos) /\ UNCHANGED <<tosrv, state>>
    BY <2>2, WithdrawInv
  <2> QED
    BY <1>3, <2>1, <2>2 DEF SendInterrupted, SendError
<1> QED
  BY <1>1, <1>2, <1>3

\* What a client reads moves from the connection to the client.
LEMMA ReadSame ==
  ASSUME NEW g \in Seq(Unit), NEW t \in Seq(Unit), t # <<>>
  PROVE  /\ Append(g, Head(t)) \o Tail(t) = g \o t
         /\ Append(g, Head(t)) \in Seq(Unit) /\ Tail(t) \in Seq(Unit)
<1>1. /\ Head(t) \in Unit /\ Tail(t) \in Seq(Unit) /\ Head(t) = t[1]
      /\ Len(t) \in Nat \ {0} /\ Len(Tail(t)) = Len(t) - 1
      /\ \A i \in 1..(Len(t) - 1) : Tail(t)[i] = t[i + 1]
  BY TailAt
<1>2. /\ Append(g, Head(t)) \in Seq(Unit) /\ Len(g) \in Nat /\ Len(Append(g, Head(t))) = Len(g) + 1
      /\ \A i \in 1..Len(g) : Append(g, Head(t))[i] = g[i]
      /\ Append(g, Head(t))[Len(g) + 1] = t[1]
  BY <1>1, AppendAt
<1> DEFINE a == Append(g, Head(t))
           b == Tail(t)
<1> HIDE DEF a, b
<1>3. /\ a \o b \in Seq(Unit) /\ Len(a \o b) = Len(a) + Len(b)
      /\ \A i \in 1..(Len(a) + Len(b)) : (a \o b)[i] = IF i <= Len(a) THEN a[i] ELSE b[i - Len(a)]
  BY <1>1, <1>2, ConcatProperties DEF a, b
<1>4. /\ g \o t \in Seq(Unit) /\ Len(g \o t) = Len(g) + Len(t)
      /\ \A i \in 1..(Len(g) + Len(t)) : (g \o t)[i] = IF i <= Len(g) THEN g[i] ELSE t[i - Len(g)]
  BY ConcatProperties
<1>5. Len(a) = Len(g) + 1 /\ Len(b) = Len(t) - 1
  BY <1>1, <1>2 DEF a, b
<1>6. ASSUME NEW i \in 1..(Len(g) + Len(t))
      PROVE  (a \o b)[i] = (g \o t)[i]
  <2>1. CASE i <= Len(g)
    <3>1. (a \o b)[i] = a[i]
      BY <1>1, <1>2, <1>3, <1>5, <2>1
    <3>2. a[i] = g[i]
      BY <1>2, <2>1 DEF a
    <3> QED
      BY <1>4, <2>1, <3>1, <3>2
  <2>2. CASE i = Len(g) + 1
    <3>1. (a \o b)[i] = a[i]
      BY <1>1, <1>2, <1>3, <1>5, <2>2
    <3>2. a[i] = t[1]
      BY <1>2, <2>2 DEF a
    <3>3. (g \o t)[i] = t[1]
      BY <1>1, <1>2, <1>4, <2>2
    <3> QED
      BY <3>1, <3>2, <3>3
  <2>3. CASE i > Len(g) + 1
    <3>1. (a \o b)[i] = b[i - Len(a)] /\ i - Len(a) \in 1..(Len(t) - 1) /\ i - Len(a) + 1 = i - Len(g)
      BY <1>1, <1>2, <1>3, <1>5, <2>3
    <3>2. b[i - Len(a)] = t[i - Len(g)]
      BY <1>1, <3>1 DEF b
    <3>3. (g \o t)[i] = t[i - Len(g)]
      BY <1>1, <1>2, <1>4, <2>3
    <3> QED
      BY <3>1, <3>2, <3>3
  <2>4. Len(g) \in Nat /\ i \in Int
    BY <1>2
  <2>5. i <= Len(g) \/ i = Len(g) + 1 \/ i > Len(g) + 1
    BY <2>4
  <2> QED
    BY <2>1, <2>2, <2>3, <2>5
<1>7. a \o b = g \o t
  <2>1. Len(a \o b) = Len(g \o t) /\ Len(g \o t) = Len(g) + Len(t)
    BY <1>1, <1>2, <1>3, <1>4, <1>5
  <2>2. \A i \in 1..Len(a \o b) : (a \o b)[i] = (g \o t)[i]
    BY <1>6, <2>1
  <2>3. a \o b \in Seq(Unit) /\ g \o t \in Seq(Unit)
    BY <1>3, <1>4
  <2> QED
    BY <2>1, <2>2, <2>3, SeqEqual
<1> QED
  BY <1>1, <1>2, <1>7 DEF a, b

\* What a client has received shrinks, or moves, but keeps its order.
LEMMA ReceivedShrinks ==
  ASSUME MyType, InOrder, UNCHANGED <<said, place>>,
         \A c \in Client : /\ Len(Received(c)) \in Nat
                           /\ Len(Received(c)') \in 0..Len(Received(c))
                           /\ \A i \in 1..Len(Received(c)') : Received(c)'[i] = Received(c)[i]
  PROVE  InOrder'
<1> SUFFICES ASSUME NEW c \in Client
             PROVE  /\ \A i \in 1..Len(Received(c)') : \E k \in 1..place'[c] : said'[k] = Received(c)'[i]
                    /\ \A i, j \in 1..Len(Received(c)') : \A k, l \in 1..Len(said') :
                         i < j /\ said'[k] = Received(c)'[i] /\ said'[l] = Received(c)'[j] => k < l
  BY DEF InOrder
<1>1. \A i \in 1..Len(Received(c)') : i \in 1..Len(Received(c)) /\ Received(c)'[i] = Received(c)[i]
  OBVIOUS
<1> QED
  BY <1>1 DEF InOrder

\* The clients hear, speak and go in the middle of the server's sends.
LEMMA ClientInv ==
  ASSUME RInv, NEW c \in Client, ClientStep(c), History
  PROVE  /\ MyType' /\ Numbered' /\ InHand' /\ Placed' /\ InOrder'
         /\ said' = said /\ place' = place
<1>1. UNCHANGED <<pc, child, pos, to, buf, rest, open>>
  BY DEF ClientStep, Connect, ClientSend, ClientRead, Leave, server
<1>2. said' = said
  BY <1>1, SaidKept
<1>3. Here' \subseteq Here
  <2>1. CASE Connect(c)
    <3>1. c \notin open
      BY <2>1 DEF Connect, RInv, SInv, WaitingApart
    <3> QED
      BY <1>1, <2>1, <3>1 DEF Connect, Here, RInv, SInv
  <2>2. CASE ClientSend(c) \/ ClientRead(c)
    BY <1>1, <2>2 DEF ClientSend, ClientRead, Here
  <2>3. CASE Leave(c)
    BY <1>1, <2>3 DEF Leave, Here, RInv, SInv
  <2> QED
    BY <2>1, <2>2, <2>3 DEF ClientStep
<1>4. \A d \in Client : /\ Len(tocl[d]) \in Nat /\ tocl[d] \in Seq(Unit) /\ got[d] \in Seq(Unit)
                        /\ tosrv[d] \in Seq(Unit) /\ sent[d] \in Nat
  BY SeqAt DEF RInv, MyType
<1>5. /\ tocl' \in [Client -> Seq(Unit)] /\ got' \in [Client -> Seq(Unit)]
      /\ \A d \in Client : Len(tocl'[d]) <= Len(tocl[d])
      /\ \A d \in Client : /\ Len(Received(d)) \in Nat
                           /\ Len(Received(d)') \in 0..Len(Received(d))
                           /\ \A i \in 1..Len(Received(d)') : Received(d)'[i] = Received(d)[i]
  <2>0. \A d \in Client : Len(Received(d)) \in Nat
    BY <1>4, ConcatProperties, SeqAt DEF Received
  <2>1. CASE Connect(c) \/ ClientSend(c)
    <3>1. tocl' = tocl /\ got' = got
      BY <2>1 DEF Connect, ClientSend
    <3>2. \A d : Received(d)' = Received(d)
      BY <3>1 DEF Received
    <3> QED
      BY <1>4, <2>0, <3>1, <3>2 DEF RInv, MyType
  <2>2. CASE ClientRead(c)
    <3>1. /\ tocl[c] # <<>> /\ got' = [got EXCEPT ![c] = Append(@, Head(tocl[c]))]
          /\ tocl' = [tocl EXCEPT ![c] = Tail(@)]
      BY <2>2 DEF ClientRead
    <3>2. /\ got'[c] = Append(got[c], Head(tocl[c])) /\ tocl'[c] = Tail(tocl[c])
          /\ \A d \in Client : d # c => got'[d] = got[d] /\ tocl'[d] = tocl[d]
      BY <3>1 DEF RInv, MyType
    <3>3. /\ got'[c] \o tocl'[c] = got[c] \o tocl[c]
          /\ got'[c] \in Seq(Unit) /\ tocl'[c] \in Seq(Unit)
      <4>1. /\ Append(got[c], Head(tocl[c])) \o Tail(tocl[c]) = got[c] \o tocl[c]
            /\ Append(got[c], Head(tocl[c])) \in Seq(Unit) /\ Tail(tocl[c]) \in Seq(Unit)
        BY <1>4, <3>1, ReadSame
      <4> QED
        BY <3>2, <4>1
    <3>4. Len(tocl'[c]) <= Len(tocl[c])
      BY <1>4, <3>1, <3>2, TailAt
    <3>5. \A d \in Client : Received(d)' = Received(d)
      BY <3>2, <3>3 DEF Received
    <3> QED
      <4>1. \A d \in Client : tocl'[d] \in Seq(Unit) /\ got'[d] \in Seq(Unit)
        BY <1>4, <3>2, <3>3
      <4>2. tocl' \in [Client -> Seq(Unit)] /\ got' \in [Client -> Seq(Unit)]
        <5>1. /\ tocl' = [d \in Client |-> tocl'[d]] /\ got' = [d \in Client |-> got'[d]]
          BY <3>1 DEF RInv, MyType
        <5> QED
          BY <4>1, <5>1
      <4>3. \A d \in Client : Len(tocl'[d]) <= Len(tocl[d])
        <5> TAKE d \in Client
        <5>1. CASE d = c
          BY <3>4, <5>1
        <5>2. CASE d # c
          <6>1. tocl'[d] = tocl[d] /\ Len(tocl[d]) \in Nat
            BY <1>4, <3>2, <5>2
          <6> QED
            BY <6>1
        <5> QED
          BY <5>1, <5>2
      <4>4. \A d \in Client : /\ Len(Received(d)') \in 0..Len(Received(d))
                              /\ \A i \in 1..Len(Received(d)') : Received(d)'[i] = Received(d)[i]
        <5> TAKE d \in Client
        <5> DEFINE q == Received(d)
                   m == Len(q)
        <5>1. Received(d)' = q /\ m \in Nat
          BY <2>0, <3>5
        <5> HIDE DEF q
        <5>2. Len(Received(d)') = m
          BY <5>1
        <5> HIDE DEF m
        <5>3. m \in 0..m
          BY <5>1
        <5> QED
          BY <5>1, <5>2, <5>3 DEF q, m
      <4> QED
        BY <2>0, <4>2, <4>3, <4>4
  <2>3. CASE Leave(c)
    <3>1. got' = got /\ tocl' = [tocl EXCEPT ![c] = <<>>]
      BY <2>3 DEF Leave
    <3>2. /\ <<>> \in Seq(Unit) /\ Len(<<>>) = 0 /\ tocl'[c] = <<>>
          /\ \A d \in Client : d # c => tocl'[d] = tocl[d]
      BY <3>1, EmptySeq DEF RInv, MyType
    <3>3. got[c] \o <<>> = got[c]
      BY <1>4, ConcatEmptySeq
    <3>4. Received(c)' = got[c]
      BY <3>1, <3>2, <3>3 DEF Received
    <3>5. \A d \in Client : d # c => Received(d)' = Received(d)
      BY <3>1, <3>2 DEF Received
    <3>6. /\ Len(got[c]) \in 0..Len(Received(c))
          /\ \A i \in 1..Len(got[c]) : got[c][i] = Received(c)[i]
      <4> DEFINE g == Len(got[c])
                 n == Len(tocl[c])
      <4>1. g \in Nat /\ n \in Nat
        BY <1>4, SeqAt
      <4>2. /\ Len(Received(c)) = g + n
            /\ \A i \in 1..(g + n) : i <= g => Received(c)[i] = got[c][i]
        BY <1>4, ConcatProperties DEF Received
      <4> HIDE DEF g, n
      <4>3. g \in 0..Len(Received(c))
        BY <4>1, <4>2
      <4>4. \A i \in 1..g : got[c][i] = Received(c)[i]
        BY <4>1, <4>2
      <4> QED
        BY <4>3, <4>4 DEF g
    <3>7. \A d \in Client : Len(tocl'[d]) <= Len(tocl[d])
      BY <1>4, <3>2
    <3>8. \A d \in Client : /\ Len(Received(d)') \in 0..Len(Received(d))
                            /\ \A i \in 1..Len(Received(d)') : Received(d)'[i] = Received(d)[i]
      <4> TAKE d \in Client
      <4>1. CASE d = c
        BY <3>4, <3>6, <4>1
      <4>2. CASE d # c
        BY <2>0, <3>5, <4>2
      <4> QED
        BY <4>1, <4>2
    <3> QED
      BY <2>0, <3>1, <3>2, <3>7, <3>8 DEF RInv, MyType
  <2> QED
    BY <2>1, <2>2, <2>3 DEF ClientStep
<1>6. place' = place
  BY <1>3, <1>5, PlaceKept DEF RInv
<1>7. InHand' /\ Placed'
  BY <1>1, <1>2, <1>6 DEF RInv, InHand, Placed, Sending, Before, Reached, Peer
<1>8. InOrder'
  BY <1>2, <1>5, <1>6, ReceivedShrinks DEF RInv
<1>9. MyType' /\ Numbered'
  <2>1. CASE Connect(c) \/ ClientRead(c) \/ Leave(c)
    <3>1. UNCHANGED <<tosrv, sent>>
      BY <2>1 DEF Connect, ClientRead, Leave
    <3> QED
      BY <1>1, <1>2, <1>5, <1>6, <3>1, SameNumbers DEF RInv, MyType
  <2>2. CASE ClientSend(c)
    <3> DEFINE u == [by |-> c, no |-> sent[c] + 1]
               q == tosrv[c]
    <3>1. /\ sent' = [sent EXCEPT ![c] = @ + 1]
          /\ tosrv' = [tosrv EXCEPT ![c] = Append(@, u)]
      BY <2>2 DEF ClientSend
    <3>2. u \in Unit /\ u.by = c /\ u.no = sent[c] + 1
      BY <1>4 DEF Unit
    <3>3. sent[c] \in Nat /\ q \in Seq(Unit)
      BY <1>4
    <3> HIDE DEF u
    <3>4. /\ Append(q, u) \in Seq(Unit) /\ Len(q) \in Nat /\ Len(Append(q, u)) = Len(q) + 1
          /\ \A i \in 1..Len(q) : Append(q, u)[i] = q[i]
          /\ Append(q, u)[Len(q) + 1] = u
      BY <3>2, <3>3, AppendAt
    <3>5. /\ sent'[c] = sent[c] + 1 /\ tosrv'[c] = Append(q, u)
          /\ \A d \in Client : d # c => sent'[d] = sent[d] /\ tosrv'[d] = tosrv[d]
      BY <3>1 DEF RInv, MyType
    <3>6. MyType'
      <4>1. sent' \in [Client -> Nat]
        BY <3>1, <3>3 DEF RInv, MyType
      <4>2. tosrv' \in [Client -> Seq(Unit)]
        BY <3>1, <3>4 DEF RInv, MyType
      <4> QED
        BY <1>1, <1>2, <1>5, <1>6, <4>1, <4>2 DEF RInv, MyType
    <3>7. \A k \in 1..Len(said) : /\ said[k].by \in Client /\ said[k].no \in Nat
                                  /\ said[k].no <= sent[said[k].by]
                                  /\ sent[said[k].by] \in Nat
                                  /\ said[k].no <= sent'[said[k].by]
      <4>1. \A k \in 1..Len(said) : said[k].by \in Client /\ said[k].no \in Nat
        <5>1. \A k \in 1..Len(said) : said[k] \in Unit
          BY SeqAt DEF RInv, MyType
        <5> QED
          BY <5>1 DEF Unit
      <4>2. \A d \in Client : sent[d] \in Nat /\ (sent'[d] = sent[d] \/ sent'[d] = sent[d] + 1)
        BY <1>4, <3>5
      <4>3. \A k \in 1..Len(said) : said[k].no <= sent[said[k].by]
        BY DEF RInv, Numbered
      <4> QED
        BY <4>1, <4>2, <4>3
    <3>8. \A d \in Client :
            /\ \A k \in 1..Len(tosrv'[d]) : tosrv'[d][k].by = d /\ tosrv'[d][k].no <= sent'[d]
            /\ \A j, k \in 1..Len(tosrv'[d]) : j < k => tosrv'[d][j].no < tosrv'[d][k].no
            /\ \A j \in 1..Len(said), k \in 1..Len(tosrv'[d]) :
                   said[j].by = d => said[j].no < tosrv'[d][k].no
      <4> TAKE d \in Client
      <4>1. CASE d # c
        BY <3>5, <4>1 DEF RInv, Numbered
      <4>2. CASE d = c
        <5>1. \A k \in 1..Len(q) : /\ q[k].by = c /\ q[k].no <= sent[c] /\ q[k].no \in Nat
                                   /\ \A j \in 1..Len(q) : j < k => q[j].no < q[k].no
                                   /\ \A j \in 1..Len(said) : said[j].by = c => said[j].no < q[k].no
          <6>1. \A k \in 1..Len(q) : q[k].no \in Nat
            <7>1. \A k \in 1..Len(q) : q[k] \in Unit
              BY <3>3, SeqAt
            <7> QED
              BY <7>1 DEF Unit
          <6> QED
            BY <6>1 DEF RInv, Numbered
        <5> HIDE DEF q
        <5>2. \A k \in 1..(Len(q) + 1) : \/ k \in 1..Len(q) /\ Append(q, u)[k] = q[k]
                                         \/ k = Len(q) + 1 /\ Append(q, u)[k] = u
          BY <3>4
        <5>3. \A k \in 1..(Len(q) + 1) : Append(q, u)[k].by = c /\ Append(q, u)[k].no <= sent[c] + 1
          BY <3>2, <3>3, <5>1, <5>2
        <5>4. ASSUME NEW j \in 1..(Len(q) + 1), NEW k \in 1..(Len(q) + 1), j < k
              PROVE  Append(q, u)[j].no < Append(q, u)[k].no
          <6>1. j \in 1..Len(q) /\ Append(q, u)[j] = q[j]
            BY <3>4, <5>4
          <6>2. CASE k \in 1..Len(q) /\ Append(q, u)[k] = q[k]
            BY <5>1, <5>4, <6>1, <6>2
          <6>3. CASE Append(q, u)[k] = u
            <7>1. q[j].no <= sent[c] /\ q[j].no \in Nat
              BY <5>1, <6>1
            <7> QED
              BY <3>2, <3>3, <6>1, <6>3, <7>1
          <6> QED
            BY <5>2, <6>2, <6>3
        <5>5. \A j \in 1..Len(said), k \in 1..(Len(q) + 1) :
                 said[j].by = c => said[j].no < Append(q, u)[k].no
          <6> TAKE j \in 1..Len(said), k \in 1..(Len(q) + 1)
          <6> HAVE said[j].by = c
          <6>1. said[j].no < sent[c] + 1
            BY <3>3, <3>7
          <6> QED
            BY <3>2, <5>1, <5>2, <6>1
        <5> QED
          BY <3>4, <3>5, <4>2, <5>3, <5>4, <5>5
      <4> QED
        BY <4>1, <4>2
    <3>9. Numbered'
      BY <1>2, <3>7, <3>8 DEF RInv, Numbered
    <3> QED
      BY <3>6, <3>9
  <2> QED
    BY <2>1, <2>2 DEF ClientStep
<1> QED
  BY <1>2, <1>6, <1>7, <1>8, <1>9

----------------------------------------------------------------------------
LEMMA RInvInit == Init /\ said = <<>> /\ place = [c \in Client |-> 0] => RInv
<1> SUFFICES ASSUME Init, said = <<>>, place = [c \in Client |-> 0] PROVE RInv
  OBVIOUS
<1>1. <<>> \in Seq(Unit) /\ Len(<<>>) = 0 /\ 1..0 = {}
  BY EmptySeq
<1>2. MyType
  BY <1>1 DEF Init, MyType
<1>3. Numbered
  BY <1>1 DEF Init, Numbered
<1>4. InHand /\ Placed
  BY <1>1 DEF Init, InHand, Placed, Sending
<1>5. InOrder
  <2>1. \A c \in Client : Received(c) = <<>>
    BY <1>1, ConcatEmptySeq DEF Init, Received
  <2> QED
    BY <1>1, <2>1 DEF InOrder
<1> QED
  BY <1>2, <1>3, <1>4, <1>5, SInvInit DEF RInv

LEMMA RInvStep == RInv /\ [Next /\ History]_<<vars, said, place>> => RInv'
<1>1. ASSUME RInv, Next, History
      PROVE  RInv'
  <2>1. SInv'
    BY <1>1, SInvStep DEF RInv
  <2>2. MyType' /\ Numbered' /\ InHand' /\ Placed' /\ InOrder'
    BY <1>1, LoopInv, RecvInv, SendInv, SignalInv, ClientInv DEF Next, ServerStep
  <2> QED
    BY <2>1, <2>2 DEF RInv
<1>2. ASSUME RInv, UNCHANGED <<vars, said, place>>
      PROVE  RInv'
  <2>1. SInv'
    BY <1>2, SInvStep DEF RInv
  <2>2. MyType' /\ Numbered' /\ InHand' /\ Placed'
    BY <1>2 DEF RInv, MyType, Numbered, InHand, Placed, Sending, Before, Reached, Peer, vars,
                server, clients
  <2>3. InOrder'
    <3>1. UNCHANGED <<said, place, tocl, got>>
      BY <1>2 DEF vars, clients
    <3>2. \A c \in Client : place[c] <= place'[c]
      BY <1>2, <3>1 DEF RInv, MyType
    <3>3. place' \in [Client -> Nat]
      BY <1>2, <3>1 DEF RInv, MyType
    <3> QED
      BY <1>2, <3>1, <3>2, <3>3, PlaceGrows DEF RInv, MyType
  <2> QED
    BY <2>1, <2>2, <2>3 DEF RInv
<1> QED
  BY <1>1, <1>2

\* What two clients have both received, they have received in the same order
\* (SameOrder): each has it in the order in which recv made it known, whatever
\* signal, full buffer or lost client cuts a round of sends short (68-149).
THEOREM OneConversation == RelaySpec => []SameOrder
<1>1. RInv => SameOrder
  <2> SUFFICES ASSUME RInv, NEW c \in Client, NEW d \in Client,
                      NEW i \in DOMAIN Received(c), NEW j \in DOMAIN Received(c), i < j,
                      NEW k \in DOMAIN Received(d), NEW l \in DOMAIN Received(d),
                      Received(d)[k] = Received(c)[i], Received(d)[l] = Received(c)[j]
               PROVE  k < l
    BY DEF SameOrder
  <2>1. \A e \in Client : /\ DOMAIN Received(e) = 1..Len(Received(e)) /\ Len(Received(e)) \in Nat
                          /\ place[e] \in Nat /\ place[e] <= Len(said) /\ Len(said) \in Nat
    BY ReceivedIs, SeqAt DEF RInv, MyType, Placed
  <2>2. /\ i \in 1..Len(Received(c)) /\ j \in 1..Len(Received(c))
        /\ k \in 1..Len(Received(d)) /\ l \in 1..Len(Received(d))
    BY <2>1
  <2>3. PICK p \in 1..place[c] : said[p] = Received(c)[i]
    BY <2>2 DEF RInv, InOrder
  <2>4. PICK q \in 1..place[c] : said[q] = Received(c)[j]
    BY <2>2 DEF RInv, InOrder
  <2>5. p \in 1..Len(said) /\ q \in 1..Len(said)
    BY <2>1
  <2>6. p < q
    BY <2>2, <2>3, <2>4, <2>5 DEF RInv, InOrder
  <2>7. said[p] # said[q]
    <3>1. \A m, n \in 1..Len(said) : said[m] = said[n] => m = n
      BY SaidOnce DEF RInv, MyType, Numbered
    <3>2. p # q
      BY <2>5, <2>6
    <3> QED
      BY <2>5, <3>1, <3>2
  <2>8. l < k => q < p
    BY <2>2, <2>3, <2>4, <2>5 DEF RInv, InOrder
  <2>9. k # l
    BY <2>3, <2>4, <2>7
  <2>10. ~(l < k)
    BY <2>5, <2>6, <2>8
  <2> QED
    <3>1. k \in Nat /\ l \in Nat
      BY <2>2
    <3> QED
      BY <2>9, <2>10, <3>1
<1> QED
  BY <1>1, RInvInit, RInvStep, PTL DEF RelaySpec

----------------------------------------------------------------------------
(* ChatServer implements ChatRelay, unless a signal can cut a blocked send. *)

LEMMA QuietKept ==
  ASSUME WInv, NoneCut, Next, History
  PROVE  Quiet'
<1>1. CASE LoopStep
  BY <1>1 DEF WInv, Quiet, LoopStep, Test, Select, Accept, AcceptFull, AcceptFails, AcceptNone,
              ServeDone, clients, Gone
<1>2. ASSUME NEW i \in Slot, Drop(i), Gone(child[i]), UNCHANGED state
      PROVE  Quiet'
  BY <1>2 DEF WInv, Quiet, Drop, Gone
<1>3. CASE RecvStep
  <2>1. Min(ToBeServed) \in Slot
    BY <1>3, ServedInUse DEF RecvStep, Recv, RecvEOF, RecvError
  <2>2. CASE Recv \/ (RecvEOF /\ Relay(Min(ToBeServed), <<>>))
    BY <2>2 DEF WInv, Quiet, Recv, RecvEOF, Relay, Gone
  <2>3. CASE (RecvEOF \/ RecvError) /\ Drop(Min(ToBeServed))
    BY <1>2, <2>1, <2>3 DEF RecvEOF, RecvError, Gone
  <2> QED
    BY <1>3, <2>2, <2>3 DEF RecvStep, RecvEOF, RecvError
<1>4. CASE SendUnit
  <2>1. Peer \in Client /\ Peer \in open
    BY <1>4 DEF SendUnit, WInv, RInv, SInv, InHand, Peer, SlotsMatch
  <2> QED
    BY <1>4, <2>1 DEF SendUnit, WInv, RInv, MyType, Quiet, Gone
<1>5. CASE SendStep /\ ~SendUnit
  <2>1. CASE NextSend /\ UNCHANGED tocl /\ \A c \in Client : state'[c] = "up" <=> state[c] = "up"
    <3>1. /\ open' = open
          /\ \A c \in Client : state'[c] \in {"shut", "reset"} => state[c] \in {"shut", "reset"}
      BY <1>5, <2>1, SInvStep DEF NextSend, SendStep, SendDone, SendFull, SendGone, SendFails,
                                  WInv, RInv, SInv
    <3> QED
      BY <2>1, <3>1 DEF WInv, Quiet, Gone
  <2>2. CASE pc = "echo" /\ Drop(pos) /\ UNCHANGED state /\ state[Peer] = "reset"
    <3>1. pos \in Slot /\ child[pos] = Peer
      BY <2>2 DEF WInv, RInv, InHand, Sending, Peer
    <3> QED
      BY <1>2, <2>2, <3>1 DEF Gone
  <2> QED
    BY <1>5, <2>1, <2>2, SendEnds DEF WInv
<1>6. CASE SignalStep
  <2> PICK s \in Signals : Signal(s) \/ SelectInterrupted(s) \/ SendInterrupted(s)
    BY <1>6 DEF SignalStep
  <2> QED
    BY DEF Signal, SelectInterrupted, SendInterrupted, NoneCut, clients, WInv, Quiet, Gone
<1>7. ASSUME NEW c \in Client, ClientStep(c)
      PROVE  Quiet'
  <2>1. CASE Connect(c)
    BY <2>1 DEF Connect, WInv, Quiet, Gone, RInv, SInv
  <2>2. CASE ClientSend(c)
    BY <2>2 DEF ClientSend, WInv, Quiet, Gone
  <2>3. CASE ClientRead(c)
    BY <2>3 DEF ClientRead, WInv, Quiet, Gone, RInv, MyType
  <2>4. CASE Leave(c)
    BY <2>4 DEF Leave, WInv, Quiet, Gone, RInv, MyType, SInv
  <2> QED
    BY <1>7, <2>1, <2>2, <2>3, <2>4 DEF ClientStep
<1> QED
  BY <1>1, <1>3, <1>4, <1>5, <1>6, <1>7 DEF Next, ServerStep

\* In the eyes of the clients nothing happens.
LEMMA Unseen ==
  ASSUME UNCHANGED <<nonblocking, said, place>>, Here' = Here,
         \A c \in Client : Received(c)' = Received(c)
  PROVE  UNCHANGED Relayed!vars
BY DEF Relayed!vars

LEMMA LoopImplements ==
  ASSUME WInv, LoopStep, History, UNCHANGED nonblocking
  PROVE  Waited' /\ [Relayed!Next]_(Relayed!vars)
<1>1. ~Sending /\ ~Sending'
  BY DEF LoopStep, Test, Select, Accept, AcceptFull, AcceptFails, AcceptNone, ServeDone, ToServe,
         Sending
<1>2. UNCHANGED <<tocl, got, state>>
  BY DEF LoopStep, Test, Select, Accept, AcceptFull, AcceptFails, AcceptNone, ServeDone, clients
<1>3. said' = said
  BY <1>1, SaidKept DEF Sending
<1>4. place' = [c \in Client |-> IF c \in Here' \ Here THEN Len(said) ELSE place[c]]
  <2>1. \A c \in Client : ~(Len(tocl'[c]) > Len(tocl[c]))
    BY <1>2, SeqAt DEF WInv, RInv, MyType
  <2> QED
    BY <2>1 DEF History
<1>5. Waited'
  <2>1. Here' \subseteq Client
    BY SInvStep DEF Here, WInv, RInv, SInv, LoopStep, Test, Select, Accept, AcceptFull, AcceptFails,
                    AcceptNone, ServeDone, Next, ServerStep
  <2> QED
    BY <1>1, <1>3, <1>4, <2>1 DEF WInv, Waited, Sending
<1>6. \A c \in Client : Received(c)' = Received(c)
  BY <1>2 DEF Received
<1>7. CASE Here' = Here
  <2>1. place' = place
    BY <1>4, <1>7 DEF WInv, RInv, MyType
  <2> QED
    BY <1>3, <1>5, <1>6, <1>7, <2>1, Unseen
<1>8. CASE Here' # Here
  <2> DEFINE c == Head(backlog)
  <2>1. open' = open \cup {c} /\ backlog # <<>>
    BY <1>2, <1>8, HereKept DEF LoopStep, Test, Select, Accept, AcceptFull, AcceptFails, AcceptNone,
                                ServeDone, clients
  <2>2. c \in Client
    BY <2>1, HeadTailProperties DEF WInv, RInv, SInv
  <2> HIDE DEF c
  <2>3. c \notin Here /\ Here' = Here \cup {c}
    BY <1>2, <1>8, <2>1, HereKept DEF Here
  <2>4. place' = [place EXCEPT ![c] = Len(said)]
    BY <1>4, <2>2, <2>3 DEF WInv, RInv, MyType
  <2>5. Relayed!Join(c)
    BY <1>3, <1>6, <2>3, <2>4 DEF Relayed!Join
  <2> QED
    BY <1>5, <2>2, <2>5 DEF Relayed!Next
<1> QED
  BY <1>7, <1>8

LEMMA PrefixBack ==
  ASSUME NEW S, NEW s \in Seq(S), NEW t \in Seq(S)
  PROVE  SubSeq(s \o t, 1, Len(s)) = s
<1>1. Len(s) \in Nat /\ Len(t) \in Nat /\ s \o t \in Seq(S)
  BY SeqAt, ConcatProperties
<1>2. CASE Len(s) = 0
  <2>1. s = <<>>
    BY <1>2, EmptySeq
  <2>2. SubSeq(s \o t, 1, 0) = <<>>
    BY SubSeqEmpty
  <2> QED
    BY <1>2, <2>1, <2>2
<1>3. CASE Len(s) # 0
  <2>1. 1 \in 1..Len(s) /\ Len(s) \in 1..Len(s)
    BY <1>1, <1>3
  <2>2. SubSeq(s \o t, 1, Len(s)) = SubSeq(s, 1, Len(s))
    BY <2>1, SubSeqOfConcat1
  <2> QED
    BY <2>2, SubSeqFull
<1> QED
  BY <1>2, <1>3

\* A text that is read is said, after everybody has been sent what was said before.
LEMMA SaySaid ==
  ASSUME WInv, MyType', Numbered', UNCHANGED <<nonblocking, place>>, Here' = Here, ~Sending,
         \A d \in Client : Received(d)' = Received(d),
         NEW c \in Client, NEW t \in Seq(Unit), said' = said \o t,
         \A k \in 1..Len(t) : t[k].by = c
  PROVE  [Relayed!Next]_(Relayed!vars)
<1>1. CASE t = <<>>
  BY <1>1, ConcatEmptySeq, Unseen DEF WInv, RInv, MyType
<1>2. CASE t # <<>>
  <2>1. /\ Len(said) \in Nat /\ Len(t) \in Nat \ {0} /\ said' \in Seq(Unit)
        /\ Len(said') = Len(said) + Len(t)
        /\ \A k \in 1..(Len(said) + Len(t)) :
              said'[k] = IF k <= Len(said) THEN said[k] ELSE t[k - Len(said)]
    BY <1>2, ConcatProperties, SeqAt, EmptySeq DEF WInv, RInv, MyType
  <2>2. said' # said
    BY <2>1
  <2>3. IsStrictPrefix(said, said')
    <3>1. SubSeq(said, 1, Len(said)) = said
      BY SubSeqFull DEF WInv, RInv, MyType
    <3>2. SubSeq(said', 1, Len(said)) = said
      BY PrefixBack DEF WInv, RInv, MyType
    <3>3. Len(said) <= Len(said')
      BY <2>1
    <3> QED
      BY <2>2, <3>1, <3>2, <3>3 DEF IsStrictPrefix, IsPrefix
  <2>4. \A k \in Len(said) + 1 .. Len(said') :
           /\ said'[k].by = c
           /\ \A j \in 1 .. k - 1 : said'[j].by = c => said'[j].no < said'[k].no
    <3> TAKE k \in Len(said) + 1 .. Len(said')
    <3>1. k \in 1..Len(said') /\ k - Len(said) \in 1..Len(t) /\ ~(k <= Len(said))
      BY <2>1
    <3>2. said'[k].by = c
      BY <2>1, <3>1
    <3>3. \A j \in 1..(k - 1) : j \in 1..Len(said') /\ j < k
      BY <2>1, <3>1
    <3> QED
      BY <3>1, <3>2, <3>3 DEF Numbered
  <2>5. ~nonblocking => Relayed!AllHaveHeard
    BY DEF WInv, Waited, Relayed!AllHaveHeard
  <2>6. UNCHANGED [d \in Client |-> Received(d)]
    OBVIOUS
  <2>7. Relayed!Say(c)
    BY <2>3, <2>4, <2>5, <2>6 DEF Relayed!Say, Relayed!IsStrictPrefix, Relayed!IsPrefix, IsStrictPrefix, IsPrefix
  <2> QED
    BY <2>7 DEF Relayed!Next
<1> QED
  BY <1>1, <1>2

LEMMA RecvImplements ==
  ASSUME WInv, RecvStep, History, UNCHANGED nonblocking
  PROVE  Waited' /\ [Relayed!Next]_(Relayed!vars)
<1> DEFINE i == Min(ToBeServed)
           c == child[i]
<1>1. i \in Slot /\ child[i] # NoClient /\ pc = "serve" /\ ~Sending
  BY ServedInUse DEF RecvStep, Recv, RecvEOF, RecvError, Sending
<1>2. ASSUME NEW t \in Seq(Unit), Relay(i, t), said' = said \o t, place' = place, UNCHANGED state
      PROVE  /\ Waited' /\ Here' = Here
             /\ \A d \in Client : Received(d)' = Received(d)
  <2>1. UNCHANGED <<child, open, tocl, got>> /\ pc' = "echo" /\ pos' = i /\ to' = i
        /\ buf' = t /\ rest' = t
    BY <1>2 DEF Relay
  <2>2. Here' = Here /\ \A d : Received(d)' = Received(d)
    BY <1>2, <2>1 DEF Here, Received
  <2>3. Len(said') = Len(said) + Len(t) /\ Len(said) \in Nat /\ Len(t) \in Nat
    BY <1>2, ConcatProperties, SeqAt DEF WInv, RInv, MyType
  <2>4. Before' = Len(said) /\ Reached' = Len(said)
    BY <2>1, <2>3 DEF Before, Reached
  <2> HIDE DEF i
  <2>5. Waited'
    BY <1>1, <1>2, <2>1, <2>2, <2>4 DEF WInv, Waited, Sending
  <2> QED
    BY <2>2, <2>5
<1>3. CASE Recv
  <2> DEFINE t == Text(tosrv[c])
  <2>1. /\ c \in Client /\ t \in Seq(Unit) /\ Relay(i, t)
        /\ MyType' /\ Numbered' /\ InHand' /\ said' = said \o t /\ place' = place
    BY <1>3, RecvIs DEF WInv
  <2>2. state' = state
    BY <1>3 DEF Recv
  <2> HIDE DEF t
  <2>3. /\ Waited' /\ Here' = Here
        /\ \A d \in Client : Received(d)' = Received(d)
    BY <1>2, <2>1, <2>2
  <2>4. \A k \in 1..Len(t) : t[k].by = c
    BY <2>1 DEF Relay, InHand, Sending
  <2> HIDE DEF c
  <2> QED
    BY <1>1, <2>1, <2>3, <2>4, SaySaid
<1>4. CASE RecvEOF /\ Relay(i, <<>>)
  <2>1. tosrv[child[i]] = <<>> /\ UNCHANGED <<tosrv, state>>
    BY <1>4 DEF RecvEOF
  <2>2. said' = said /\ place' = place
    BY <1>1, <1>4, <2>1, EmptyRelay DEF WInv
  <2>3. <<>> \in Seq(Unit) /\ said \o <<>> = said
    BY EmptySeq, ConcatEmptySeq DEF WInv, RInv, MyType
  <2>4. /\ Waited' /\ Here' = Here
        /\ \A d \in Client : Received(d)' = Received(d)
    BY <1>2, <1>4, <2>1, <2>2, <2>3
  <2> QED
    BY <2>2, <2>4, Unseen
<1>5. CASE (RecvEOF \/ RecvError) /\ Drop(i)
  <2>1. UNCHANGED <<tosrv, state, tocl, got>> /\ Gone(child[i]) /\ open' = open \ {child[i]}
        /\ pc' = "test"
    BY <1>5 DEF RecvEOF, RecvError, Drop, Gone
  <2>2. said' = said /\ place' = place
    BY <1>1, <1>5, <2>1, DropInv DEF WInv
  <2>3. Here' = Here /\ \A d : Received(d)' = Received(d)
    BY <2>1 DEF Here, Gone, Received
  <2>4. Waited'
    BY <1>1, <2>1, <2>2, <2>3 DEF WInv, Waited, Sending
  <2> QED
    BY <2>2, <2>3, <2>4, Unseen
<1> QED
  BY <1>3, <1>4, <1>5 DEF RecvStep, RecvEOF, RecvError

\* The end of a send that did not fail, or failed to another than the sender.
LEMMA NextSendImplements ==
  ASSUME WInv, Sending, NextSend, History, UNCHANGED <<nonblocking, tocl>>,
         \A c \in Client : state'[c] = "up" <=> state[c] = "up",
         nonblocking \/ Peer \notin Here \/ rest = <<>>
  PROVE  Waited' /\ [Relayed!Next]_(Relayed!vars)
<1> DEFINE others == {j \in Slot : child[j] # NoClient /\ j # pos /\ (pc = "cast" => j > to)}
<1>1. UNCHANGED <<child, open, buf, got>>
  BY DEF NextSend
<1>2. said' = said /\ place' = place
  BY NextSendIs DEF WInv
<1>3. Here' = Here /\ Here \subseteq Client /\ \A d : Received(d)' = Received(d)
  BY <1>1 DEF Here, Received, WInv, RInv, SInv
<1>4. /\ Len(said) \in Nat /\ Len(<<>>) = 0
      /\ pos \in Slot /\ to \in Slot /\ Slot \subseteq Nat /\ (pc = "echo" <=> to = pos)
      /\ pc = "echo" \/ pc = "cast"
  BY SeqAt, EmptySeq, SlotsNat DEF WInv, RInv, MyType, InHand, Sending
<1>5. /\ \A c \in Here : \E j \in Slot : child[j] = c
      /\ \A i, j \in Slot : child[i] \in Here /\ child[i] = child[j] => i = j
      /\ \A j \in Slot : child[j] \in Here => child[j] # NoClient
  BY ServerAssumption DEF Here, WInv, RInv, SInv, SlotsMatch
<1>6. ~nonblocking =>
        \A j \in Slot : child[j] \in Here =>
             place[child[j]] = IF j \in others THEN Before ELSE Len(said)
  <2> SUFFICES ASSUME ~nonblocking, NEW j \in Slot, child[j] \in Here
               PROVE  place[child[j]] = IF j \in others THEN Before ELSE Len(said)
    OBVIOUS
  <2>1. CASE j = to
    <3>1. place[child[j]] = Reached /\ rest = <<>>
      BY <2>1 DEF WInv, Waited, Peer
    <3>2. Reached = Len(said)
      BY <1>4, <3>1 DEF Reached
    <3>3. j \notin others
      BY <1>4, <2>1
    <3> QED
      BY <3>1, <3>2, <3>3
  <2>2. CASE j # to /\ pc = "echo"
    <3>1. child[j] # Peer
      BY <1>4, <1>5, <2>2 DEF Peer
    <3>2. j \in others
      BY <1>4, <1>5, <2>2
    <3> QED
      BY <2>2, <3>1, <3>2 DEF WInv, Waited
  <2>3. CASE j # to /\ pc = "cast"
    <3>1. j \in others <=> j > to /\ j # pos
      BY <1>5, <2>3
    <3>2. place[child[j]] = IF j > to /\ j # pos THEN Before ELSE Len(said)
      BY <2>3 DEF WInv, Waited
    <3> QED
      BY <3>1, <3>2
  <2> QED
    BY <1>4, <2>1, <2>2, <2>3
<1>7. Waited'
  <2>1. CASE others = {} /\ pc' = "serve"
    <3>1. ~nonblocking => \A c \in Here : place[c] = Len(said)
      BY <1>5, <1>6, <2>1
    <3> QED
      BY <1>2, <1>3, <2>1, <3>1 DEF Waited, Sending
  <2>2. CASE others # {} /\ pc' = "cast" /\ to' = Min(others) /\ rest' = buf /\ pos' = pos
    <3>1. to' \in others /\ \A j \in others : to' <= j
      BY <1>4, <2>2, FirstSlot, FirstIsLeast
    <3>2. Before' = Before /\ Reached' = Before /\ Peer' = child[to']
      BY <1>1, <1>2, <2>2 DEF Before, Reached, Peer
    <3>3. \A j \in Slot : child[j] \in Here => (j \in others <=> j = to' \/ (j > to' /\ j # pos))
      <4> TAKE j \in Slot
      <4> HAVE child[j] \in Here
      <4>1. child[j] # NoClient /\ j \in Nat /\ to' \in Nat /\ to \in Nat
        BY <1>4, <1>5, <3>1
      <4>2. CASE j \in others
        <5>1. to' <= j /\ j # pos
          BY <3>1, <4>2
        <5> QED
          BY <4>1, <4>2, <5>1
      <4>3. CASE j > to' /\ j # pos
        <5>1. pc = "cast" => to' > to
          BY <3>1
        <5>2. pc = "cast" => j > to
          BY <4>1, <4>3, <5>1
        <5> QED
          BY <4>1, <4>3, <5>2
      <4> QED
        BY <3>1, <4>2, <4>3
    <3> HIDE DEF others
    <3>4. ~nonblocking =>
            /\ \A j \in Slot : child[j] \in Here =>
                 place[child[j]] = IF j = to' THEN Before
                                   ELSE IF j > to' /\ j # pos THEN Before ELSE Len(said)
            /\ child[to'] \in Here => place[child[to']] = Before
      BY <1>6, <3>1, <3>3 DEF others
    <3> QED
      BY <1>1, <1>2, <1>3, <2>2, <3>2, <3>4 DEF Waited, Sending
  <2> QED
    BY <2>1, <2>2 DEF NextSend
<1> QED
  BY <1>2, <1>3, <1>7, Unseen

\* A unit that is put into a buffer is the next its receiver has not been sent.
LEMMA SendUnitImplements ==
  ASSUME WInv, SendUnit, History, UNCHANGED nonblocking
  PROVE  Waited' /\ [Relayed!Next]_(Relayed!vars)
<1> DEFINE p == Peer
           u == Head(rest)
           m == Len(said) - Len(rest) + 1
<1>1. UNCHANGED <<pc, child, pos, to, buf, open, state, got>> /\ Sending
  BY DEF SendUnit
<1>2. p \in Client /\ p = child[to] /\ to \in Slot /\ p \in Here
  BY <1>1 DEF WInv, RInv, SInv, InHand, Peer, SlotsMatch, SendUnit, Here
<1>3. /\ rest \in Seq(Unit) /\ rest # <<>> /\ rest' = Tail(rest)
      /\ tocl' = [tocl EXCEPT ![p] = Append(@, u)]
  BY DEF SendUnit, WInv, RInv, MyType
<1>4. Len(rest) \in Nat \ {0} /\ u = rest[1] /\ u \in Unit /\ Len(rest') = Len(rest) - 1
  BY <1>3, TailAt
<1>5. /\ Len(said) \in Nat /\ Len(buf) \in Nat /\ Len(rest) <= Len(buf) /\ Len(buf) <= Len(said)
      /\ \A k \in 1..Len(rest) : rest[k] = said[Len(said) - Len(rest) + k]
  BY <1>1, SeqAt DEF WInv, RInv, MyType, InHand
<1>6. m \in 1..Len(said) /\ u = said[m] /\ m = Reached + 1
  BY <1>4, <1>5 DEF Reached
<1>7. said' = said /\ Here' = Here
  BY <1>1, SaidKept, HereKept DEF Sending
<1>8. place' = [place EXCEPT ![p] = m]
  <2>1. \A c \in Client : tocl[c] \in Seq(Unit) /\ Len(tocl[c]) \in Nat
    BY SeqAt DEF WInv, RInv, MyType
  <2>2. Len(tocl'[p]) = Len(tocl[p]) + 1
    BY <1>2, <1>3, <1>4, <2>1, AppendAt DEF WInv, RInv, MyType
  <2>3. \A c \in Client : Len(tocl'[c]) > Len(tocl[c]) <=> c = p
    BY <1>2, <1>3, <2>1, <2>2 DEF WInv, RInv, MyType
  <2> HIDE DEF p
  <2>4. place' = [c \in Client |-> IF c = p THEN m ELSE place[c]]
    BY <1>7, <2>3 DEF History
  <2> QED
    BY <1>2, <2>4 DEF WInv, RInv, MyType
<1>9. place[p] \in Nat /\ place[p] <= Reached /\ place \in [Client -> Nat]
      /\ (~nonblocking => place[p] = Reached)
  BY <1>1, <1>2 DEF WInv, RInv, MyType, Placed, Waited
<1>10. Received(p)' = Append(Received(p), u) /\ \A c \in Client \ {p} : Received(c)' = Received(c)
  <2>1. got[p] \in Seq(Unit) /\ tocl[p] \in Seq(Unit) /\ tocl'[p] = Append(tocl[p], u)
        /\ \A c \in Client \ {p} : tocl'[c] = tocl[c]
    BY <1>2, <1>3 DEF WInv, RInv, MyType
  <2>2. p' = p /\ got' = got
    BY <1>1 DEF Peer
  <2> HIDE DEF p, u
  <2>3. got[p] \o Append(tocl[p], u) = Append(got[p] \o tocl[p], u)
    BY <1>4, <2>1, ReceivedMore
  <2> QED
    BY <2>1, <2>2, <2>3 DEF Received
<1>11. Waited'
  <2>1. Reached' = m /\ Before' = Before /\ Peer' = p
    BY <1>1, <1>4, <1>5, <1>7 DEF Reached, Before, Peer
  <2>2. \A c \in Client : place'[c] = IF c = p THEN m ELSE place[c]
    BY <1>8, <1>9
  <2>3. \A j \in Slot : child[j] \in Here => child[j] \in Client /\ (child[j] = p <=> j = to)
    BY <1>1, <1>2, ServerAssumption DEF WInv, RInv, SInv, SlotsMatch, InHand, Here
  <2>4. Here \subseteq Client
    BY DEF Here, WInv, RInv, SInv
  <2> HIDE DEF p, m
  <2>5. ~nonblocking => (pc = "echo" => \A c \in Here \ {p} : place'[c] = Before)
    BY <2>2, <2>4 DEF WInv, Waited, p
  <2>6. ~nonblocking =>
          (pc = "cast" => \A j \in Slot : child[j] \in Here =>
                place'[child[j]] = IF j = to THEN m
                                   ELSE IF j > to /\ j # pos THEN Before ELSE Len(said))
    BY <2>2, <2>3 DEF WInv, Waited
  <2> QED
    BY <1>1, <1>2, <1>7, <2>1, <2>2, <2>5, <2>6 DEF Waited, Sending
<1>12. Relayed!Hear(p)
  <2>1. m \in place[p] + 1 .. Len(said) /\ (~nonblocking => m = place[p] + 1)
    <3>1. Reached \in Int
      BY <1>4, <1>5 DEF Reached
    <3> HIDE DEF m
    <3> QED
      BY <1>5, <1>6, <1>9, <3>1
  <2> DEFINE h == [c \in Client |-> Received(c)]
  <2>2. h' = [h EXCEPT ![p] = Append(@, said[m])]
    <3> DEFINE v == Append(Received(p), said[m])
    <3>1. \A c \in Client : Received(c)' = IF c = p THEN v ELSE Received(c)
      <4>1. Received(p)' = v
        BY <1>6, <1>10
      <4>2. p' = p
        BY <1>1 DEF Peer
      <4> HIDE DEF p, v
      <4> TAKE c \in Client
      <4>3. CASE c = p
        <5>1. Received(c)' = Received(p)'
          BY <4>2, <4>3 DEF Received
        <5> QED
          BY <4>1, <4>3, <5>1
      <4>4. CASE c # p
        BY <1>10, <4>4
      <4> QED
        BY <4>3, <4>4
    <3> HIDE DEF p, v
    <3>2. h' = [c \in Client |-> IF c = p THEN v ELSE Received(c)]
      BY <3>1
    <3>3. h' = [h EXCEPT ![p] = v]
      BY <1>2, <3>2
    <3>4. h[p] = Received(p)
      BY <1>2
    <3> QED
      BY <3>3, <3>4 DEF v
  <2> HIDE DEF p, m
  <2> QED
    BY <1>2, <1>7, <1>8, <2>1, <2>2 DEF Relayed!Hear
<1> QED
  BY <1>2, <1>11, <1>12 DEF Relayed!Next

\* A failing echo withdraws what nobody has been sent.
LEMMA WithdrawImplements ==
  ASSUME WInv, pc = "echo", rest = buf, Drop(pos), UNCHANGED <<tosrv, state>>, state[Peer] = "reset",
         History, UNCHANGED nonblocking
  PROVE  Waited' /\ [Relayed!Next]_(Relayed!vars)
<1>1. /\ said' = SubSeq(said, 1, Before) /\ place' = place
      /\ Before \in Nat /\ Len(said') = Before
      /\ \A c \in Client : place[c] <= Before
  BY WithdrawInv DEF WInv
<1>2. UNCHANGED <<tocl, got>> /\ pc' = "test" /\ open' = open \ {child[pos]}
  BY DEF Drop
<1>3. /\ Peer = child[pos] /\ Peer \in Client /\ Peer \notin Here
      /\ Len(said) \in Nat /\ Len(buf) \in Nat /\ Len(buf) <= Len(said)
      /\ \A k \in 1..Len(buf) : /\ buf[k] = said[Len(said) - Len(buf) + k]
                                /\ buf[k].by = child[pos]
  BY SeqAt DEF WInv, RInv, SInv, MyType, InHand, Sending, Peer, Here
<1>4. Here' = Here /\ \A d : Received(d)' = Received(d)
  BY <1>2, <1>3 DEF Here, Received
<1>5. Waited'
  BY <1>1, <1>2, <1>3, <1>4 DEF WInv, Waited, Sending
<1>6. CASE Before = Len(said)
  <2>1. said' = said
    BY <1>1, <1>6, SubSeqFull DEF WInv, RInv, MyType
  <2> QED
    BY <1>1, <1>4, <1>5, <2>1, Unseen
<1>7. CASE Before # Len(said)
  <2>1. Before \in 0 .. Len(said) - 1
    BY <1>1, <1>3, <1>7 DEF Before
  <2>2. \A k \in Before + 1 .. Len(said) : said[k].by = Peer
    <3> TAKE k \in Before + 1 .. Len(said)
    <3> DEFINE l == k - Before
    <3>1. l \in 1..Len(buf) /\ Len(said) - Len(buf) + l = k
      BY <1>1, <1>3 DEF Before
    <3> HIDE DEF l
    <3>2. buf[l] = said[k] /\ buf[l].by = Peer
      BY <1>3, <3>1
    <3> QED
      BY <3>2
  <2>3. UNCHANGED [d \in Client |-> Received(d)]
    BY <1>4
  <2>4. Relayed!Withdraw(Peer)
    BY <1>1, <1>3, <1>4, <2>1, <2>2, <2>3 DEF Relayed!Withdraw
  <2> QED
    BY <1>3, <1>5, <2>4 DEF Relayed!Next
<1> QED
  BY <1>6, <1>7

LEMMA SendImplements ==
  ASSUME WInv, SendStep, History, UNCHANGED nonblocking
  PROVE  Waited' /\ [Relayed!Next]_(Relayed!vars)
<1>1. CASE SendUnit
  BY <1>1, SendUnitImplements
<1>2. CASE SendDone \/ SendFull
  <2>1. /\ Sending /\ NextSend /\ UNCHANGED <<tocl, state>> /\ (nonblocking \/ rest = <<>>)
    BY <1>2 DEF SendDone, SendFull
  <2> QED
    BY <2>1, NextSendImplements
<1>3. CASE SendGone
  <2>1. /\ Sending /\ NextSend /\ UNCHANGED tocl /\ Peer \notin Here
        /\ \A c \in Client : state'[c] = "up" <=> state[c] = "up"
    BY <1>3 DEF SendGone, WInv, RInv, SInv, Here
  <2> QED
    BY <2>1, NextSendImplements
<1>4. CASE SendFails
  <2>1. state[Peer] = "reset" /\ UNCHANGED <<state, tocl>> /\ Sending /\ rest = buf
    BY <1>4 DEF SendFails
  <2>2. CASE pc = "echo" /\ Drop(pos) /\ UNCHANGED tosrv
    BY <2>1, <2>2, WithdrawImplements
  <2>3. CASE NextSend
    BY <2>1, <2>3, NextSendImplements DEF Here
  <2> QED
    BY <1>4, <2>2, <2>3 DEF SendFails, SendError
<1> QED
  BY <1>1, <1>2, <1>3, <1>4 DEF SendStep

LEMMA SignalImplements ==
  ASSUME WInv, NoneCut, SignalStep, History, UNCHANGED nonblocking
  PROVE  Waited' /\ [Relayed!Next]_(Relayed!vars)
<1> PICK s \in Signals : Signal(s) \/ SelectInterrupted(s)
  BY DEF SignalStep, NoneCut, SendInterrupted
<1>1. UNCHANGED <<open, state, tocl, got>>
  BY DEF Signal, SelectInterrupted, clients
<1>2. Here' = Here /\ \A d : Received(d)' = Received(d)
  BY <1>1, HereKept DEF Received
<1>3. place' = place
  <2>1. \A c \in Client : Len(tocl[c]) \in Nat
    BY SeqAt DEF WInv, RInv, MyType
  <2> QED
    BY <1>1, <1>2, <2>1, PlaceKept DEF WInv, RInv, MyType
<1>4. said' = said
  BY SaidKept DEF Signal, SelectInterrupted
<1>5. Waited'
  <2>1. CASE Signal(s)
    BY <1>2, <1>3, <1>4, <2>1
       DEF Signal, WInv, Waited, Sending, Before, Reached, Peer
  <2>2. CASE SelectInterrupted(s)
    BY <1>2, <1>3, <1>4, <2>2 DEF SelectInterrupted, WInv, Waited, Sending
  <2> QED
    BY <2>1, <2>2
<1> QED
  BY <1>2, <1>3, <1>4, <1>5, Unseen

LEMMA ClientImplements ==
  ASSUME WInv, NEW c \in Client, ClientStep(c), History, UNCHANGED nonblocking
  PROVE  Waited' /\ [Relayed!Next]_(Relayed!vars)
<1>1. UNCHANGED <<pc, child, pos, to, buf, rest, open>>
  BY DEF ClientStep, Connect, ClientSend, ClientRead, Leave, server
<1>2. said' = said /\ place' = place
  BY ClientInv DEF WInv
<1>3. Here' = IF Leave(c) THEN Here \ {c} ELSE Here
  <2>1. CASE Connect(c)
    <3>1. c \notin open /\ ~Leave(c)
      BY <2>1 DEF Connect, Leave, WInv, RInv, SInv, WaitingApart
    <3> QED
      BY <1>1, <2>1, <3>1 DEF Connect, Here, WInv, RInv, SInv
  <2>2. CASE Leave(c)
    BY <1>1, <2>2 DEF Leave, Here, WInv, RInv, SInv
  <2>3. CASE (ClientSend(c) \/ ClientRead(c)) /\ ~Leave(c)
    BY <1>1, <2>3 DEF ClientSend, ClientRead, Here
  <2> QED
    BY <2>1, <2>2, <2>3 DEF ClientStep
<1>4. Waited'
  <2>1. Here' \subseteq Here
    BY <1>3
  <2> QED
    BY <1>1, <1>2, <2>1 DEF WInv, Waited, Sending, Before, Reached, Peer
<1>5. \A d \in Client : tocl[d] \in Seq(Unit) /\ got[d] \in Seq(Unit)
  BY DEF WInv, RInv, MyType
<1>6. CASE ~Leave(c)
  <2>1. \A d \in Client : Received(d)' = Received(d)
    <3>1. CASE Connect(c) \/ ClientSend(c)
      BY <3>1 DEF Connect, ClientSend, Received
    <3>2. CASE ClientRead(c)
      <4>1. /\ tocl[c] # <<>> /\ got'[c] = Append(got[c], Head(tocl[c])) /\ tocl'[c] = Tail(tocl[c])
            /\ \A d \in Client : d # c => got'[d] = got[d] /\ tocl'[d] = tocl[d]
        BY <3>2 DEF ClientRead, WInv, RInv, MyType
      <4>2. Append(got[c], Head(tocl[c])) \o Tail(tocl[c]) = got[c] \o tocl[c]
        BY <1>5, <4>1, ReadSame
      <4> QED
        BY <4>1, <4>2 DEF Received
    <3> QED
      BY <1>6, <3>1, <3>2 DEF ClientStep
  <2> QED
    BY <1>2, <1>3, <1>4, <1>6, <2>1, Unseen
<1>7. CASE Leave(c)
  <2>1. /\ state[c] = "up" /\ got' = got /\ tocl'[c] = <<>>
        /\ \A d \in Client : d # c => tocl'[d] = tocl[d]
    BY <1>7 DEF Leave, WInv, RInv, MyType
  <2>2. got[c] \o <<>> = got[c]
    BY <1>5, ConcatEmptySeq
  <2>3. Received(c)' = got[c] /\ \A d \in Client : d # c => Received(d)' = Received(d)
    BY <2>1, <2>2 DEF Received
  <2>4. CASE c \notin open
    <3>1. tocl[c] = <<>>
      BY <2>4 DEF WInv, Quiet
    <3>2. \A d \in Client : Received(d)' = Received(d)
      BY <2>1, <2>3, <3>1 DEF Received
    <3>3. Here' = Here
      BY <1>3, <2>4 DEF Here
    <3> QED
      BY <1>2, <1>4, <3>2, <3>3, Unseen
  <2>5. CASE c \in open
    <3> DEFINE h == [d \in Client |-> Received(d)]
               n == Len(got[c])
    <3>1. n \in 0..Len(Received(c)) /\ got[c] = SubSeq(Received(c), 1, n)
      <4>1. n \in Nat /\ Len(tocl[c]) \in Nat /\ Len(Received(c)) = n + Len(tocl[c])
        BY <1>5, ConcatProperties, SeqAt DEF Received
      <4>2. SubSeq(got[c] \o tocl[c], 1, n) = got[c]
        BY <1>5, PrefixBack
      <4> HIDE DEF n
      <4>3. n \in 0..Len(Received(c))
        BY <4>1
      <4> QED
        BY <4>2, <4>3 DEF Received
    <3>2. h' = [h EXCEPT ![c] = SubSeq(@, 1, n)]
      BY <2>3, <3>1
    <3>3. h[c] = Received(c)
      OBVIOUS
    <3> HIDE DEF n
    <3>4. Relayed!Leave(c)
      BY <1>2, <1>3, <1>7, <2>1, <2>5, <3>1, <3>2, <3>3 DEF Relayed!Leave, Here
    <3> QED
      BY <1>4, <3>4 DEF Relayed!Next
  <2> QED
    BY <2>4, <2>5
<1> QED
  BY <1>6, <1>7

----------------------------------------------------------------------------
LEMMA WInvInit ==
  ASSUME Init, said = <<>>, place = [c \in Client |-> 0]
  PROVE  WInv /\ Relayed!Init
<1>1. <<>> \in Seq(Unit) /\ Len(<<>>) = 0 /\ open = {} /\ ~Sending
  BY EmptySeq DEF Init, Sending
<1>2. nonblocking \in BOOLEAN
  BY ServerAssumption DEF Init
<1>3. Here = {}
  BY <1>1 DEF Here
<1>4. \A c \in Client : Received(c) = <<>>
  BY <1>1, ConcatEmptySeq DEF Init, Received
<1>5. RInv
  BY RInvInit
<1>6. Quiet /\ Waited
  BY <1>1, <1>3 DEF Init, Quiet, Waited, Sending
<1> QED
  BY <1>2, <1>3, <1>4, <1>5, <1>6 DEF WInv, Relayed!Init

LEMMA WInvStep ==
  ASSUME WInv, NoneCut, [Next /\ History]_<<vars, said, place>>
  PROVE  (WInv /\ NoneCut)' /\ [Relayed!Next]_(Relayed!vars)
<1>1. RInv'
  BY RInvStep DEF WInv
<1>2. CASE Next /\ History
  <2>1. nonblocking' = nonblocking
    BY <1>2 DEF Next
  <2>2. Quiet'
    BY <1>2, QuietKept
  <2>3. Waited' /\ [Relayed!Next]_(Relayed!vars)
    BY <1>2, <2>1, LoopImplements, RecvImplements, SendImplements, SignalImplements,
       ClientImplements DEF Next, ServerStep
  <2> QED
    BY <1>1, <2>1, <2>2, <2>3 DEF WInv, NoneCut
<1>3. CASE UNCHANGED <<vars, said, place>>
  <2>1. UNCHANGED <<pc, child, pos, to, buf, rest, open, state, tocl, got, said, place, nonblocking>>
    BY <1>3 DEF vars, server, clients
  <2>2. Here' = Here /\ \A c : Received(c)' = Received(c)
    BY <2>1 DEF Here, Received
  <2>3. Quiet' /\ Waited'
    BY <2>1, <2>2 DEF WInv, Quiet, Gone, Waited, Sending, Before, Reached, Peer
  <2> QED
    BY <1>1, <2>1, <2>2, <2>3, Unseen DEF WInv, NoneCut
<1> QED
  BY <1>2, <1>3

\* However connections come and go and readers lag, server.c carries one
\* conversation (ImplementsRelay): every step of it is one of ChatRelay or none,
\* as long as no signal cuts a blocked send short (none arrives, or accepted
\* sockets are non-blocking as on BSD).  Then what is left of a text is lost to
\* one client, and a server that waits for slow readers may skip for them too.
THEOREM ServerImplementsRelay ==
  ASSUME Signals = {} \/ Platforms = {TRUE}
  PROVE  RelaySpec => ImplementsRelay
<1>1. Init /\ said = <<>> /\ place = [c \in Client |-> 0] => WInv /\ NoneCut /\ Relayed!Init
  <2> SUFFICES ASSUME Init, said = <<>>, place = [c \in Client |-> 0]
               PROVE  WInv /\ NoneCut /\ Relayed!Init
    OBVIOUS
  <2>1. NoneCut
    <3>1. nonblocking \in Platforms
      BY DEF Init
    <3>2. CASE Platforms = {TRUE}
      <4>1. nonblocking = TRUE
        BY <3>1, <3>2
      <4> QED
        BY <4>1, Zenon DEF NoneCut
    <3> QED
      BY <3>2 DEF NoneCut
  <2> QED
    BY <2>1, WInvInit
<1>2. WInv /\ NoneCut /\ [Next /\ History]_<<vars, said, place>>
        => (WInv /\ NoneCut)' /\ [Relayed!Next]_(Relayed!vars)
  BY WInvStep
<1> QED
  BY <1>1, <1>2, PTL DEF RelaySpec, ImplementsRelay, Relayed!Spec

============================================================================
