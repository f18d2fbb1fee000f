SPECIFICATION FairSpec
CONSTANTS
    MaxConnectAttempts = 1
    HardResetThreshold = 2
    EarlyUptime = FALSE
    NearbyV1 = TRUE
    HasLong = FALSE
    Contended = {"disconnect"}
    MaxDiscTasks = 1
    MaxObdScans = 0
PROPERTIES
    PhasesEnd
    FollowupCompletes
