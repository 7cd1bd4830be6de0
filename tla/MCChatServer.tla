---------------------------- MODULE MCChatServer ----------------------------
(* The clients of the runs of ChatServer, and how much they send. *)
EXTENDS ChatServer
CONSTANTS c1, c2, c3

TwoOneNone == c1 :> 2 @@ c2 :> 1 @@ c3 :> 0
============================================================================
