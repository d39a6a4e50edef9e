\* One process of the application; every fault but those that need a finding of their own.
SPECIFICATION FairSpec
CONSTANTS
    Instances = {p1}
    Ports <- MCPorts
    NoPort = NoPort
    Values <- MCValues
    Absent <- MCAbsent
    UserSettings <- MCUserSettings
    NoFile = NoFile
    Torn = Torn
    Faults = {"prepare", "open", "read", "set", "remove", "enable", "create", "launch", "serve", "crash"}
    MaxFaults = 3
INVARIANTS
    TypeOK
    ChangesAreRecoverable
    CleanStopRestores
    ServingIsConfigured
PROPERTIES
    ImplementsReversibleChange
    StopCompletes
    LaterCaptureRecovers
