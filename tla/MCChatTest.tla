----------------------------- MODULE MCChatTest -----------------------------
(* Two clients of the test programs. *)
EXTENDS ChatTest
CONSTANTS c1, c2

MadeInOrder == <<c1, c2>>
OneEach == [c \in Client |-> 1]
============================================================================
