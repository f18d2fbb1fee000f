SPECIFICATION FairSpec
CONSTANTS
    SlotCount = 2
    p1 = p1
    Profiles = {p1}
    NoProfile = NoProfile
    Configs <- MCConfigs
    MaxProfileWriteRetries = 1
    MaxCommandRetries = 2
INVARIANTS
    SentInOrder
PROPERTIES
    NotClobbered
    StaysInConnection
    PushNowComplete
    PushEnds
