SPECIFICATION FairSpec
CONSTANT EventDepth = 2
INVARIANTS TypeOK FlagFollowsApp
PROPERTIES AdvertisingReturns RadioIsYielded
