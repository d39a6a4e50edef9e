\* Two requests in flight to two hosts, each with something to guard, and a save at any moment.
SPECIFICATION FairSpec
CONSTANTS
    api = api
    web = web
    Requests = {"r1", "r2"}
    Hosts <- MCHosts
    HostOf <- MCHostOf
    ContentOf <- MCContentOf
    Policies <- MCPolicies
    MaxSaves = 1
INVARIANTS
    TypeOK
    GuardInForce
    RecordIsTrue
    DistinctNumbers
PROPERTIES
    RecordedOnce
    HiddenStaysHidden
    SaveCompletes
CHECK_DEADLOCK FALSE
