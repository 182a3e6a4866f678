SPECIFICATION Spec
CONSTANTS
    Versions = {v1, v2, v3}
    Initial = v1
    Mute = {}
    Dead = {}
    None = None
    Torn = Torn
    Frozen = TRUE
    SelfUpdateEnabled = TRUE
    HeartbeatRaises <- FileOperations
    WatchdogRaises <- Nowhere
    MaxOutages = 0
INVARIANT
    HeartbeatSurvives
CHECK_DEADLOCK FALSE
