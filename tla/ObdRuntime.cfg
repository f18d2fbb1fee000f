SPECIFICATION FairSpec
CONSTANTS
    Adapters = {a1}
    None = None
    EventDepth = 2
    MaxDirectConnectFailures = 2
    MaxConsecutiveErrors = 1
    ErrorsBeforeDisconnect = 2
    EcuIdleThreshold = 1
    WarmCommands = 1
    ColdCommands = 1
    Races <- NoRace
INVARIANTS RequestIsCarried AnswerIsTaken LossIsKnown
PROPERTIES SavedAnswered ProxyIsReleased
CHECK_DEADLOCK FALSE
