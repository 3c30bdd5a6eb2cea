SPECIFICATION Spec

CONSTANTS
  Chat = {c1, c2}
  c1 = c1
  c2 = c2
  MaxPrompts = 1
  MaxSwitches = 1
  MaxFragments = 0
  Capacity = 99
  CollectFirst = TRUE

INVARIANTS
  WhatWasOpenedIsThere

CHECK_DEADLOCK FALSE
