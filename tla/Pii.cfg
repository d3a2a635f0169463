SPECIFICATION FairSpec
CONSTANTS
  Requests = {r1, r2}
  CbTimeout = 1
  MaxClients = 2
INVARIANTS
  TypeOK
  OpenMeansNoSuccess
  NothingPassesUnasked
PROPERTIES
  BreakerSettles
  EveryRequestAnswered
