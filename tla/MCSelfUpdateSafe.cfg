SPECIFICATION Spec
CONSTANTS
    Versions = {v1, v2, v3}
    Initial = v1
    Mute = {}
    Dead = {v3}
    None = None
    Torn = Torn
    Frozen = TRUE
    SelfUpdateEnabled = TRUE
    HeartbeatRaises <- EveryHeartbeatPoint
    WatchdogRaises <- EveryWatchdogPoint
    MaxOutages = 2
INVARIANTS
    TypeOK
    BinaryIntact
    FallbackKept
    RecordDescribesDisk
    RevertHasBackup
    MemoryMatchesDisk
    TrialIsWatched
PROPERTIES
    OnlyVerifiedInstalled
    RecordEndsByVerdict
    ForfeitNeedsFailure
    KeepsPromise
CHECK_DEADLOCK FALSE
