SPECIFICATION Spec

CONSTANTS
  Kinds = {"text", "thinking", "tool", "other"}
  ShowThinking = TRUE
  MaxToolRounds = 2
  MaxStreamRetries = 1
  MaxBlocks = 2
  MaxParts = 2

INVARIANTS
  CallsRunOnce
  WatchedIsKept

PROPERTIES
  WholeOrNothing

CHECK_DEADLOCK FALSE
