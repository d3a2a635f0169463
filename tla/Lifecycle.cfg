SPECIFICATION FairSpec
CONSTANTS
  Configs <- MCConfigs
  Keys <- MCKeys
  Names <- MCNames
  Enforced = TRUE
  Handlers = {h1, h2}
  MaxRecorded = 2
  NoConfig = NoConfig
INVARIANTS
  TypeOK
  FileTrue
  CleanShutdown
  ConfigInForce
PROPERTIES
  FileGrows
  ShutdownReturns
