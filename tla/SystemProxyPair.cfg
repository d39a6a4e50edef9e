\* Two processes of the application share the registry and proxy-restore.json; nothing fails.
SPECIFICATION Spec
CONSTANTS
    Instances = {p1, p2}
    Ports <- MCPorts
    NoPort = NoPort
    Values <- MCValues
    Absent <- MCAbsent
    UserSettings <- MCUserSettings
    NoFile = NoFile
    Torn = Torn
    Faults = {}
    MaxFaults = 0
INVARIANTS
    NothingLeftBehind
