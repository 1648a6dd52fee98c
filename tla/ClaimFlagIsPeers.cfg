SPECIFICATION Spec
CONSTANTS
  IdleLimit = 4
  SupTimeout = 2
  WdtTimeout = 1
  FirstDelay = 3
  NextDelay = 4
  MaxUpdates = 2
  MaxEvents = 2
INVARIANT FlagIsPeers
