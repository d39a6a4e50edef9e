\* Two changes of the system, a call that fails, two lookups or snapshots, and four seconds; an
\* entry is used for two.
SPECIFICATION Spec
CONSTANTS
    Ports = {a}
    Pids = {p, q}
    Names = {x, y}
    Tasks = {t, u}
    Nobody = Nobody
    Ttl = 2
    Retention = 2
    MaxRows = 1
    Slack = 1
    MaxTime = 3
    Budget <- MCBudget
INVARIANTS
    TypeOK
    ObservationsAreTrue
SYMMETRY Alike
CHECK_DEADLOCK FALSE
