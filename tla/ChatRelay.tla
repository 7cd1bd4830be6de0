----------------------------- MODULE ChatRelay -----------------------------
(***************************************************************************)
(* What chatserver/server.c promises the people who chat: one conversation *)
(* that everybody hears in the same order, from the moment they join.      *)
(* A server that waits for slow readers lets nobody miss anything and      *)
(* nobody speak before all have heard; one that does not wait may skip.    *)
(* No slots, no sockets, no system calls.                                  *)
(***************************************************************************)
EXTENDS SequencesExt

CONSTANTS Client

VARIABLES
    waits,      \* the server waits for slow readers
    said,       \* the conversation, in the order the server has read it
    here,       \* who takes part
    place,      \* per client: how much of the conversation has gone past it
    heard       \* per client: what it has of it

vars == <<waits, said, here, place, heard>>

Init ==
    /\ waits \in BOOLEAN
    /\ said = <<>> /\ here = {}
    /\ place = [c \in Client |-> 0]
    /\ heard = [c \in Client |-> <<>>]

Join(c) ==
    /\ c \notin here
    /\ here' = here \cup {c}
    /\ place' = [place EXCEPT ![c] = Len(said)]
    /\ UNCHANGED <<said, heard>>

AllHaveHeard == \A c \in here : place[c] = Len(said)

\* Client c says some units more, after those it has said before.
Say(c) ==
    /\ waits => AllHaveHeard
    /\ IsStrictPrefix(said, said')
    /\ \A k \in Len(said) + 1 .. Len(said') :
           /\ said'[k].by = c
           /\ \A j \in 1 .. k - 1 : said'[j].by = c => said'[j].no < said'[k].no
    /\ UNCHANGED <<here, place, heard>>

\* What c said last is withdrawn from all, before anyone has heard it: c has gone.
Withdraw(c) ==
    /\ c \notin here
    /\ \E n \in 0 .. Len(said) - 1 :
           /\ \A k \in n + 1 .. Len(said) : said[k].by = c
           /\ \A d \in Client : place[d] <= n
           /\ said' = SubSeq(said, 1, n)
    /\ UNCHANGED <<here, place, heard>>

Hear(c) ==
    /\ c \in here
    /\ \E k \in place[c] + 1 .. Len(said) :
           /\ waits => k = place[c] + 1
           /\ place' = [place EXCEPT ![c] = k]
           /\ heard' = [heard EXCEPT ![c] = Append(@, said[k])]
    /\ UNCHANGED <<said, here>>

\* Client c leaves, and what had come to it and it had not looked at is lost.
Leave(c) ==
    /\ c \in here
    /\ here' = here \ {c}
    /\ \E n \in 0 .. Len(heard[c]) :
           heard' = [heard EXCEPT ![c] = SubSeq(@, 1, n)]
    /\ UNCHANGED <<said, place>>

Next ==
    /\ UNCHANGED waits
    /\ \E c \in Client : Join(c) \/ Say(c) \/ Withdraw(c) \/ Hear(c) \/ Leave(c)

Spec == Init /\ [][Next]_vars

=============================================================================
