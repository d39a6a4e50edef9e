\* One process whose snapshot may be cut short: it is killed, or the disk is full, while
\* fs::write is writing proxy-restore.json.
SPECIFICATION FairSpec
CONSTANTS
    Instances = {p1}
    Ports <- MCPorts
    NoPort = NoPort
    Values <- MCValues
    Absent <- MCAbsent
    UserSettings <- MCUserSettings
    NoFile = NoFile
    Torn = Torn
    Faults = {"torn"}
    MaxFaults = 1
PROPERTIES
    LaterCaptureRecovers
