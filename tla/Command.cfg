SPECIFICATION FairSpec

CONSTANTS
  MaxPrints = 2
  PipeSize = 1
  MaxStops = 1

INVARIANTS
  NoLostWakeUp
  KilledIsGone
  OutputIsWhole

PROPERTIES
  EndsAtLast

CHECK_DEADLOCK FALSE
