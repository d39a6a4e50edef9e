---------------------------- MODULE MCDataFiles ----------------------------
(* A small instance of DataFiles: two processes of two threads, one body. *)
EXTENDS DataFiles, TLC

Budget(puts, loads, saves, launches, faults) ==
    [puts |-> puts, loads |-> loads, saves |-> saves, launches |-> launches, faults |-> faults]
\* Two loads or three, three bodies, three saves, or one of each.
MCBudgets ==
    {Budget(0, 2, 0, 3, 2), Budget(0, 3, 0, 2, 1), Budget(3, 0, 0, 3, 2), Budget(0, 0, 3, 3, 1),
     Budget(1, 1, 1, 2, 0)}
Alike == Permutations(Processes)
=============================================================================
