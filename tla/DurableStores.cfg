SPECIFICATION StoresSpec
CONSTANTS
    v1 = v1
    v2 = v2
    v3 = v3
    NoValue = NoValue
    Damaged = Damaged
    Absent = Absent
    Torn = Torn
    Default = v1
    Value <- MCValue
    Faults <- FaultKinds
    Stores <- AllStores
    ShortWrites <- MCShortWrites
INVARIANT SurvivesMetaLoss
PROPERTIES StoresDurably FilesDurable
