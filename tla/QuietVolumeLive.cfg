SPECIFICATION VolumeFairSpec
CONSTANTS
    f1 = f1
    Volumes = {0, 1, 3}
    Freqs = {f1}
    FadeVolume = 1
    SpeedVolumes = {0}
    FadeDelay = 1
    CarryWindow = 0
    RestoreWindow = 1
    Debounce = 0
    MaxSeenFreqs = 1
    Lossy = {"lower"}
PROPERTIES
    VolumeReturns
CONSTRAINT NothingLost
