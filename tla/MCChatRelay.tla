---------------------------- MODULE MCChatRelay -----------------------------
(* The clients of the run of ChatRelayRefinement, and how much they send. *)
EXTENDS ChatRelayRefinement
CONSTANTS c1, c2, c3

TwoOneNone == c1 :> 2 @@ c2 :> 1 @@ c3 :> 0
============================================================================
