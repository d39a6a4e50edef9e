--------------------------- MODULE MCBypassRadar ---------------------------
(* A small instance of BypassRadar: a port that two processes may have. *)
EXTENDS BypassRadar, TLC

MCBudget == [changes |-> 2, faults |-> 1, requests |-> 2]
Alike == Permutations(Pids) \cup Permutations(Names) \cup Permutations(Tasks)
=============================================================================
