SPECIFICATION FairSpec
CONSTANTS
  home = home
  hotspot = hotspot
  Networks = {home, hotspot}
  MaxFailures = 2
  MaxRequests = 3
INVARIANT RadioMatches
PROPERTIES SavedWorked StopEnds ConnectEnds
CHECK_DEADLOCK FALSE
