-------------------------- MODULE MCDeadlockTables --------------------------
(* Every table of a small size, for TLC.                                   *)
EXTENDS DeadlockTables

CONSTANT id1

=============================================================================
