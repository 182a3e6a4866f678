SPECIFICATION CFairSpec
CONSTANTS
    Versions = {v1}
    Initial = v1
    Mute = {}
    Dead = {}
    None = None
    Torn = Torn
    Frozen = TRUE
    SelfUpdateEnabled = FALSE
    HeartbeatRaises <- OddResponse
    WatchdogRaises <- Nowhere
    MaxOutages = 1
    Lingering <- Reports
    MayFail <- UnitFile
INVARIANTS
    CTypeOK
    DaemonHasFiles
    ScriptUndoes
PROPERTIES
    RunsDaemon
    SignalEndsRun
    HandOffCleansUp
CHECK_DEADLOCK FALSE
