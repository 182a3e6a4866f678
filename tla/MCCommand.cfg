SPECIFICATION CommandSpec
CONSTANTS
    Enrolments = {e1, e2}
    Versions = {v1}
    None = None
    Torn = Torn
    Daemon = daemon
    Enrollers = {enroll1}
    MaxOutages = 2
INVARIANTS
    STypeOK
    AlwaysReadable
    EnrolmentsAreReal
    FailedEnrollLeavesNothing
    LoadFindsState
PROPERTIES
    LeftOnlyByOutages
    SavesAtomically
    SuccessIsSaved
