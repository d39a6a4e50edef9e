\* Two requests, a rule whose content type is no header value among the settings, and no save.
SPECIFICATION Spec
CONSTANTS
    api = api
    web = web
    Requests = {"r1", "r2"}
    Hosts <- MCHosts
    HostOf <- MCHostOf
    ContentOf <- MCContentOf
    Policies <- MCPolicies
    MaxSaves = 0
INVARIANTS
    MatchesGetTheRule
CHECK_DEADLOCK FALSE
