------------------------ MODULE ChatRelayRefinement ------------------------
(***************************************************************************)
(* chatserver/server.c implements ChatRelay.  Two history variables are    *)
(* kept beside the server: the conversation, to which a recv adds and from *)
(* which the echo that fails takes, and how far each client has been sent  *)
(* it.  The rounds, slots and sends to those who have left are invisible.  *)
(***************************************************************************)
EXTENDS ChatServer

VARIABLES said, place

Here == {c \in open : state[c] = "up"}

\* recv makes the text known (68-109); an echo that fails is followed by no send
\* (110-131); a send puts the units that are left of it one after the other.
History ==
    /\ said' = IF pc = "serve" /\ pc' = "echo" THEN said \o buf'
               ELSE IF pc = "echo" /\ pc' = "test"
                    THEN SubSeq(said, 1, Len(said) - Len(buf))
               ELSE said
    /\ place' = [c \in Client |->
                    IF c \in Here' \ Here THEN Len(said)
                    ELSE IF Len(tocl'[c]) > Len(tocl[c]) THEN Len(said) - Len(rest) + 1
                    ELSE place[c]]

RelaySpec ==
    /\ Init /\ said = <<>> /\ place = [c \in Client |-> 0]
    /\ [][Next /\ History]_<<vars, said, place>>

Relayed == INSTANCE ChatRelay
    WITH waits <- ~nonblocking, here <- Here, heard <- [c \in Client |-> Received(c)]

\* However connections come and go and readers lag, the clients take part in one
\* conversation; with blocking sockets none of them misses anything of it, and
\* nothing is read before everybody has been sent what was read before.
ImplementsRelay == Relayed!Spec

=============================================================================
