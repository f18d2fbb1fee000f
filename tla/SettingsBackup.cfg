SPECIFICATION Spec
CONSTANTS
    MaxEdits = 3
    MaxBoots = 2
    Nothing = Nothing
    Exposures <- NoExposure
INVARIANTS SomeBackupLoads CardIsCurrent RestoredWhenEmpty
PROPERTY RequestReachesCard
CHECK_DEADLOCK FALSE
