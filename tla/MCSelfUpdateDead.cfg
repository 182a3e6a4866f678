SPECIFICATION FairSpec
CONSTANTS
    Versions = {v1, v2, v3}
    Initial = v1
    Mute = {}
    Dead = {v3}
    None = None
    Torn = Torn
    Frozen = TRUE
    SelfUpdateEnabled = TRUE
    HeartbeatRaises <- Nowhere
    WatchdogRaises <- Nowhere
    MaxOutages = 0
PROPERTY
    TrialEnds
CHECK_DEADLOCK FALSE
