SPECIFICATION FairSpec

CONSTANTS
  MaxVersion = 3
  Size = 3
  MaxTroubles = 4
  MaxPushes = 2

INVARIANTS
  TrustedIsInstalled
  ReadyIsSetUp

PROPERTIES
  RelaunchIsFree
  InstalledAtLast
