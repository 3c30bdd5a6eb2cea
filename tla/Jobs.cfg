SPECIFICATION FairSpec

CONSTANTS
  MaxJobs = 2
  MaxFinished = 1
  MaxPrints = 1
  Workers = 2
  KillOnExit = TRUE

INVARIANTS
  KilledMeansDead
  RunningIsListed
  FinishedBound
  KeepsTheLatest
  CountSettles

PROPERTIES
  KeepsBoard
  EveryExitNoticed
