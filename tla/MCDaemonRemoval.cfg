SPECIFICATION DSpec
CONSTANTS
    Versions = {v1}
    Initial = v1
    Mute = {}
    Dead = {}
    None = None
    Torn = Torn
    Frozen = TRUE
    SelfUpdateEnabled = FALSE
    HeartbeatRaises <- Nowhere
    WatchdogRaises <- Nowhere
    MaxOutages = 1
    Lingering <- Nowhere
PROPERTY
    NoGoodbyeAfterRemoval
CHECK_DEADLOCK FALSE
