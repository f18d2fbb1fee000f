SPECIFICATION FairSpec
CONSTANTS
    MaxAlerts = 2
    Pictures = 2
    QueueDepth = 1
    FreshTicks = 1
    AssemblyTicks = 1
    Bases = {1}
    Exposures <- NoExposure
PROPERTIES NoOldRows WholeTable TableFollows
