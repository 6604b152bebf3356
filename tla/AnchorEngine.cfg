SPECIFICATION Spec
CONSTANTS
    IP = {"a", "b", "v", "cdn"}
    Whitelist = {"cdn"}
    Flows <- MCFlows
    TTL = 1
    ScanPorts = 2
    MinSources = 2
    MinFlows = 2
    VolumeFlows = 3
    VictimFlows = 2
    FloodRate = 1
    CallTime = 1
    LastCall = 2
    MaxBatch = 2
    MaxWindow = 3
INVARIANTS PortsOfSession SourcesCoverFlows DdosStillBacked
PROPERTY Forgotten
