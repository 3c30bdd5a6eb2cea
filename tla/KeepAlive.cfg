SPECIFICATION KeeperFairSpec

CONSTANTS
  MaxTurns = 3
  MaxJobs = 2
  MaxInside = 3
  MaxAside = 2
  MaxChoices = 4
  Capacity = 3

INVARIANT
  StopIsObeyed

PROPERTIES
  ServiceFollowsWork
  BoxOpensAgain

CHECK_DEADLOCK FALSE
