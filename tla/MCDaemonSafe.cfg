SPECIFICATION DSpec
CONSTANTS
    Versions = {v1, v2, v3}
    Initial = v1
    Mute = {}
    Dead = {v3}
    None = None
    Torn = Torn
    Frozen = TRUE
    SelfUpdateEnabled = TRUE
    HeartbeatRaises <- OddResponseOrDisk
    WatchdogRaises <- Restoring
    MaxOutages = 2
    Lingering <- BeatAndReport
INVARIANT
    DTypeOK
PROPERTIES
    UpdatesItself
    GoodbyeIsLast
    StoppedUntilStarted
    RemovalStands
CHECK_DEADLOCK FALSE
