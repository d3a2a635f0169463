SPECIFICATION RouteFairSpec
CONSTANTS
  Entries <- MCEntries
  Configs <- MCConfigs
  Conditions <- MCConditions
  Threshold = 1
  FailureCap = 1
  Overlap = 1
  Requests = {r1}
  Models <- MCModels
  Validating = TRUE
  NoEntry = NoEntry
INVARIANTS
  RouteTypeOK
  BestUsableAnswers
  ServedAsCounted
PROPERTIES
  KeepsPromise
  EveryRequestEnds
