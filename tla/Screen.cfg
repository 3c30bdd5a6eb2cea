SPECIFICATION FairSpec

CONSTANTS
  Chat = {c1, c2}
  c1 = c1
  c2 = c2
  MaxPrompts = 2
  MaxSwitches = 1
  MaxFragments = 1
  Capacity = 3
  CollectFirst = FALSE

INVARIANTS
  ScreenAgrees
  NothingOfAnotherChat

PROPERTIES
  NeverFrozen

CHECK_DEADLOCK FALSE
