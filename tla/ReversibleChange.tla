--------------------------- MODULE ReversibleChange ---------------------------
(***************************************************************************)
(* What the reversible proxy configuration promises, without its steps:    *)
(* settings of somebody else are changed only while a backup of them is    *)
(* kept, and the backup is given up only once it has been put back.        *)
(***************************************************************************)
CONSTANTS
    Data,       \* the states the settings can be in
    NoBackup    \* no backup is kept

VARIABLES
    data,       \* the settings
    backup      \* the backup, or NoBackup

Init == data \in Data /\ backup = NoBackup

\* The owner changes the settings while nobody else does.
Edit ==
    /\ backup = NoBackup
    /\ data' \in Data
    /\ UNCHANGED backup

Save ==
    /\ backup = NoBackup
    /\ backup' = data
    /\ UNCHANGED data

\* One step of changing the settings, or of putting them back.
Change ==
    /\ backup # NoBackup
    /\ data' \in Data
    /\ UNCHANGED backup

Discard ==
    /\ backup = data
    /\ backup' = NoBackup
    /\ UNCHANGED data

Next == Edit \/ Save \/ Change \/ Discard

Spec == Init /\ [][Next]_<<data, backup>>
=============================================================================
