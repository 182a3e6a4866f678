SPECIFICATION Spec
CONSTANTS
    Versions = {v1, v2, v3}
    Initial = v1
    Mute = {}
    Dead = {}
    None = None
    Torn = Torn
    Frozen = TRUE
    SelfUpdateEnabled = TRUE
    HeartbeatRaises <- Nowhere
    WatchdogRaises <- Nowhere
    MaxOutages = 1
INVARIANT
    TrialIsRecorded
CHECK_DEADLOCK FALSE
