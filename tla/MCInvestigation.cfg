\* Four sessions in any order over three seconds, or three and two clicks; a minute lasts a second.
SPECIFICATION Spec
CONSTANTS
    Minute = 1
    FailureWindow = 2
    Fallback = 2
    ManyHosts = 2
    ManySuspicious = 1
    BeaconLeast = 3
    BeaconKept = 3
    VolumeLimit = 4
    MaxPaths = 1
    MaxTypes = 1
    MaxSocketTypes = 1
    BigBody = 1
    Traffic <- MCTraffic
    Foreign <- MCForeign
    Idle = {TRUE}
    MaxTime = 2
    MaxSent = 2
    Budgets <- MCBudgets
INVARIANTS
    TypeOK
    CountsAreEvidence
    LearnedIsNormal
    RepliesMatch
CHECK_DEADLOCK FALSE
