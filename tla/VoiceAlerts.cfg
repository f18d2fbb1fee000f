SPECIFICATION VoiceSpec
CONSTANTS
    Alerts <- MCAlerts
    Laser = {}
    Filtered = {}
    Secondaries <- MCAlerts
    Options <- MCOptions
    MaxAnnounced = 1
    MaxHistories = 2
    MaxBogeys = 2
    Cooldown = 2
    CountCooldown = 1
    Stability = 1
    Gap = 1
    Sustained = 1
    Stale = 2
INVARIANT SaidOnce
PROPERTY PriorityIsNamed
