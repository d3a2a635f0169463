SPECIFICATION Spec
CONSTANTS
  Consumers <- OneConsumer
  LimitConfigs <- MCLimitConfigs
  Handlers = {h1, h2}
  NoConsumer = NoConsumer
  MaxTime = 4
  MaxLimiters = 2
  MaxBuckets = 3
INVARIANTS
  TypeOK
  WindowBound
  RetryAfterHonest
PROPERTIES
  KeepsPromise
SYMMETRY Symmetry
