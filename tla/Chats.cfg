SPECIFICATION FairSpec

CONSTANTS
  MaxPrompts = 2
  MaxSwitches = 2
  MaxDeletes = 1
  MaxCrashes = 1

INVARIANTS
  AtMostTheTurnInFlight
  ResumesWhatIsShown
  OnlyTheOpenChatComesBack

PROPERTIES
  PromptsLandWhereAimed
  ReopensTheLast
  NothingIsForgotten

CHECK_DEADLOCK FALSE
