----------------------------- MODULE MCWorkspace -----------------------------
(***************************************************************************)
(* Small instances of Workspace.  A behaviour draws one budget: each is a  *)
(* group of operations that disturb each other.                            *)
(***************************************************************************)
EXTENDS Workspace

Budget(some) == [o \in Operations |-> IF o \in DOMAIN some THEN some[o] ELSE 0]

MCBudgets == {
    \* Ends of one capture and starts of the next.
    Budget([captures |-> 2, faults |-> 1]),
    \* Rows of the worker and of a replay thread, pins, a save that fails, a new limit.
    Budget([captures |-> 1, traffic |-> 1, replays |-> 1]),
    Budget([captures |-> 1, traffic |-> 2, pins |-> 1]),
    Budget([replays |-> 2, pins |-> 2, faults |-> 1, limits |-> 1]),
    \* Windows over a table that grows, is evicted from, cleared and replaced.
    Budget([replays |-> 2, windows |-> 2]),
    Budget([captures |-> 1, traffic |-> 1, windows |-> 1]),
    Budget([capsules |-> 1, replays |-> 1, windows |-> 2])}
=============================================================================
