SPECIFICATION PatientSpec

CONSTANTS
  KeepRecent = 1
  MaxToolRounds = 2
  MaxStreamRetries = 1
  MaxCalls = 2
  MaxPrompts = 3

INVARIANTS
  RequestsAreShaped
  QuestionKept
  AtMostOneLateTool

PROPERTIES
  KeepsContract
  StopIsHeard
  EveryTurnConcludes
