SPECIFICATION PowerSpec
CONSTANTS
    Versions = {v1, v2}
    Initial = v1
    Mute = {}
    Dead = {}
    None = None
    Torn = Torn
    Frozen = TRUE
    SelfUpdateEnabled = TRUE
    HeartbeatRaises <- Nowhere
    WatchdogRaises <- Nowhere
    MaxOutages = 1
INVARIANT
    RecordHasFallback
CHECK_DEADLOCK FALSE
