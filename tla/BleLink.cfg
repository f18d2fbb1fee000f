SPECIFICATION Spec
CONSTANTS
    MaxConnectAttempts = 2
    HardResetThreshold = 2
    EarlyUptime = FALSE
    NearbyV1 = FALSE
    HasLong = TRUE
    Contended = {"connect", "disconnect", "scanEnd"}
    MaxDiscTasks = 2
    MaxObdScans = 1
INVARIANTS
    InProgressOwned
    ConnectedIsComplete
    StepsHaveHandles
PROPERTIES
    NoDanglingHandles
