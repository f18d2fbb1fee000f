SPECIFICATION VolumeSpec
CONSTANTS
    f1 = f1
    f2 = f2
    Volumes = {0, 1, 3}
    Freqs = {f1, f2}
    FadeVolume = 1
    SpeedVolumes = {0, 255}
    FadeDelay = 1
    CarryWindow = 1
    RestoreWindow = 1
    Debounce = 1
    MaxSeenFreqs = 1
    Lossy = {"lower"}
INVARIANTS
    VolumeTypeOK
    BaselineKept
PROPERTIES
    RestoreOnlyWhenDue
SYMMETRY FreqSymmetry
CONSTRAINT NothingLost
