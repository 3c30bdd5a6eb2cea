SPECIFICATION FairSpec

CONSTANTS
  MaxVersion = 2
  Size = 2
  MaxTroubles = 1
  MaxPushes = 0

PROPERTIES
  LaunchesInstall
