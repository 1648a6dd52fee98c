SPECIFICATION FairSpec
CONSTANTS
  IdleLimit = 4
  SupTimeout = 2
  WdtTimeout = 1
  FirstDelay = 3
  NextDelay = 4
  MaxUpdates = 2
  MaxEvents = 2
INVARIANT TypeOK
INVARIANT LinkTracked
INVARIANT SubscriberServed
PROPERTY HealthyReset
PROPERTY IdleEnds
PROPERTY SendEnds
