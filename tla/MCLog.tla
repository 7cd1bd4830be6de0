------------------------------- MODULE MCLog -------------------------------
(* The processes and messages of the runs of Log. *)
EXTENDS Log
CONSTANTS m1, m2, w1, w2, l1, l2, text
============================================================================
