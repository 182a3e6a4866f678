SPECIFICATION FairSpec
CONSTANTS
    Versions = {v1, v2, v3}
    Initial = v1
    Mute = {v2}
    Dead = {}
    None = None
    Torn = Torn
    Frozen = TRUE
    SelfUpdateEnabled = TRUE
    HeartbeatRaises <- OddResponse
    WatchdogRaises <- Nowhere
    MaxOutages = 1
PROPERTIES
    TrialEnds
    FailsOver
CHECK_DEADLOCK FALSE
