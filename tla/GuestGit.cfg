SPECIFICATION Spec

CONSTANTS
  MaxVersion = 1
  Size = 1
  MaxTroubles = 0
  MaxPushes = 1

INVARIANTS
  GitIsConfigured
